---- MODULE Spec2Model ----
(***************************************************************************)
(* Model of the HYPEPACK content pipeline: the /generate route, the         *)
(* orchestrator (runPipeline), the retry executor (withRetry) and the       *)
(* stages it drives (resolveToken, scrapeWebsite, manageLogo,               *)
(* generatePosts, generateBanner, generateVideo).  Remote services are the  *)
(* environment: every invocation of a remote operation nondeterministically *)
(* returns or throws.                                                       *)
(*                                                                         *)
(* Spec      one request through the route and the pipeline.  The awaits   *)
(*           of the sequential stages step through withRetry attempt by     *)
(*           attempt; inside the two concurrent branches a whole withRetry  *)
(*           call is one step (withRetryRun), the branches interleaving at  *)
(*           their awaits.                                                  *)
(* SpecRetry withRetry alone, over its options.                             *)
(***************************************************************************)
EXTENDS Integers, Sequences, FiniteSets, TLC

\* ------------------------------------------------------------------------
\* Program constants and bounds
\* ------------------------------------------------------------------------
DefaultMaxRetries == 2

DefaultBaseDelayMs == 1000

ClipRetries == 1

AllClipsCount == 2

\* The video generator under src/ attempts 3 clips; the declaration shipped
\* in dist/ documents the 2-clip generator the orchestrator was written for.
ClipCounts == {2, 3}

\* SpecRetry: largest maxRetries option tried
MaxRetriesBound == 3

\* SpecRetry: baseDelayMs options tried
BaseDelayOptions == {DefaultBaseDelayMs, 250}

ResolutionSources == {"coingecko", "dexscreener", "user", "fallback"}

VARIABLES
    body,           \* raw request body: which of ticker / contractAddress it carries
    nClips,         \* number of clips the video generator attempts
    pc,             \* position of the request handler / runPipeline
    reply,          \* HTTP status the route answered with (0: none yet)
    retry,          \* the withRetry activation the sequential code awaits
    token,          \* TokenResolution
    website,        \* WebsiteScrapeResult
    logo,           \* LogoResult
    officialLogo,   \* orchestrator.js:64
    posts,          \* PostGenerationResult (which path produced it)
    fallbacksUsed,  \* orchestrator.js:30
    bannerPc,       \* position of the generateBanner branch
    bannerResult,   \* BannerResult (which path produced it)
    videoPc,        \* position of the generateVideo branch
    clips,          \* outcome of each clip generation
    videoResult,    \* VideoResult
    output,         \* GenerateJobOutput
    stageLog,       \* start/end events of the stages, in order of occurrence
    strategyLog,    \* resolution strategies resolveToken has tried, in order
    raisedBy,       \* stage whose exception escaped runPipeline ("" if none)
    remoteOk,       \* some remote call made so far has succeeded
    poll,           \* one activation of pollShotstackRender
    now,            \* Date.now() of the process
    tmpFiles,       \* content of the files under /tmp/logo-*.png
    s3Client,       \* module variable of assetUploader
    extract,        \* the extractColors / upload activation of each of two jobs
    calls           \* the latest application of a pure function

vars == <<body, nClips, pc, reply, retry, token, website, logo, officialLogo,
          posts, fallbacksUsed, bannerPc, bannerResult, videoPc, clips,
          videoResult, output, stageLog, strategyLog, raisedBy, remoteOk,
          poll, now, tmpFiles, s3Client, extract, calls>>

\* ------------------------------------------------------------------------
\* Retry executor (dist/utils/retry.js)
\* ------------------------------------------------------------------------
NoResult ==
    [kind |-> "none", logoUrl |-> FALSE, websiteUrl |-> FALSE, posts |-> <<>>]

Res(k) == [NoResult EXCEPT !.kind = k]

\* what an invocation that throws yields
Err == Res("error")

IdleRetry ==
    [st |-> "idle", label |-> "", maxRetries |-> 0, baseDelayMs |-> 0,
     attempt |-> 0, calls |-> 0, lastError |-> 0, delays |-> <<>>,
     result |-> NoResult]

\* const { maxRetries = 2, baseDelayMs = 1000, label } = opts; let lastError;
\* for (let attempt = 0; ...) { try { return await fn();   -- fn is in flight
withRetryBegin(label, maxRetries, baseDelayMs) ==
    [IdleRetry EXCEPT !.st = "calling", !.label = label,
                      !.maxRetries = maxRetries, !.baseDelayMs = baseDelayMs]

\* return await fn();
withRetryOnReturn(r, v) ==
    [r EXCEPT !.st = "returned", !.calls = @ + 1, !.result = v]

\* Variant of withRetryDelay: linear instead of exponential backoff.
withRetryDelay_Linear(baseDelayMs, attempt) == baseDelayMs * (attempt + 1)

\* const delay = baseDelayMs * Math.pow(2, attempt);
withRetryDelay(baseDelayMs, attempt) == baseDelayMs * (2 ^ attempt)

\* Variant of withRetryOnThrow: loop bound off by one (attempt <= maxRetries
\* before waiting), so one more attempt is made.
withRetryOnThrow_OffByOne(r) ==
    IF r.attempt <= r.maxRetries
    THEN [r EXCEPT !.calls = @ + 1, !.lastError = r.calls + 1, !.st = "waiting"]
    ELSE [r EXCEPT !.calls = @ + 1, !.lastError = r.calls + 1, !.st = "thrown",
                   !.attempt = @ + 1]

\* catch (err) { lastError = err; if (attempt < maxRetries) { ...setTimeout } }
\* and, once attempt exceeds maxRetries, throw lastError.  An error is
\* identified by the number of the invocation that threw it.
withRetryOnThrow(r) ==
    IF r.attempt < r.maxRetries
    THEN [r EXCEPT !.calls = @ + 1, !.lastError = r.calls + 1, !.st = "waiting"]
    ELSE [r EXCEPT !.calls = @ + 1, !.lastError = r.calls + 1, !.st = "thrown",
                   !.attempt = @ + 1]

\* await new Promise((r) => setTimeout(r, delay)); attempt++; next fn()
withRetryWake(r) ==
    [r EXCEPT !.st = "calling",
              !.delays = Append(@, withRetryDelay(r.baseDelayMs, r.attempt)),
              !.attempt = @ + 1]

Settled(r) == r.st \in {"returned", "thrown"}

\* The whole loop, given what the successive invocations of fn yield.
RECURSIVE withRetryRun(_, _)
withRetryRun(r, outcomes) ==
    IF Settled(r) THEN r
    ELSE IF r.st = "waiting" THEN withRetryRun(withRetryWake(r), outcomes)
    ELSE IF outcomes[r.calls + 1] = Err
         THEN withRetryRun(withRetryOnThrow(r), outcomes)
         ELSE withRetryRun(withRetryOnReturn(r, outcomes[r.calls + 1]), outcomes)

\* ------------------------------------------------------------------------
\* Environment: what one invocation of a remote operation can return
\* (besides throwing), by withRetry label
\* ------------------------------------------------------------------------
\* extractFromPair: logoUrl and websiteUrl are each optional;
\* searchDexScreener / lookupByAddress return null when no pair qualifies.
PairResults ==
    {[Res("pair") EXCEPT !.logoUrl = l, !.websiteUrl = w] :
        l \in BOOLEAN, w \in BOOLEAN}

\* ------------------------------------------------------------------------
\* parseResponse and buildFallbackResult (dist postGenerator,
\* src/dist/modules/input.d.ts:132-196); a post is modelled by its length
\* ------------------------------------------------------------------------
MaxPostLen == 280

TrimmedPostLen == 277

EllipsisLen == 3

\* lengths of the three templated posts without the ticker, which each
\* contains twice
TemplateTextLens == <<214, 216, 187>>

\* length of "TOKEN"
DefaultTickerLen == 5

\* const ticker = input.ticker || "TOKEN"; validateInput puts no limit on the
\* length of a ticker: one long enough for slice(0, 280) to cut the template
TickerLens == IF body.ticker THEN {40} ELSE {DefaultTickerLen}

\* a post of the model response: its length, and how many of its first
\* characters the minimalist guardrail would remove
RawPost(len, banned) == [len |-> len, banned |-> banned]

\* completions the model can answer with: no JSON object at all, fewer than
\* 3 posts, posts that are too long, empty, or made of banned words only
RawResponses ==
    {[json |-> FALSE, posts |-> <<>>],
     [json |-> TRUE, posts |-> <<RawPost(281, 0), RawPost(281, 0)>>],
     [json |-> TRUE, posts |-> <<RawPost(281, 0), RawPost(280, 0), RawPost(0, 0)>>],
     [json |-> TRUE, posts |-> <<RawPost(100, 0), RawPost(281, 0), RawPost(3, 3),
                                 RawPost(100, 0)>>]}

\* `...template...`.slice(0, 280), three times
buildFallbackResult(tickerLen) ==
    [Res("template") EXCEPT !.posts =
        [i \in 1..3 |->
            LET n == TemplateTextLens[i] + 2 * tickerLen
            IN  IF n > MaxPostLen THEN MaxPostLen ELSE n]]

\* if (post.length > 280) return post.slice(0, 277) + "..."; return post;
trimPost(len) == IF len > MaxPostLen THEN TrimmedPostLen + EllipsisLen ELSE len

\* try { match JSON; posts.length < 3 -> throw; slice(0, 3).map(trim);
\*       minimalist guardrail: banned words replaced by "" }
\* catch { return buildFallbackResult(ticker) }
parseResponse(raw, tickerLen, minimalist) ==
    IF ~raw.json \/ Len(raw.posts) < 3
    THEN buildFallbackResult(tickerLen)
    ELSE [Res("model") EXCEPT !.posts =
            [i \in 1..3 |->
                LET t == trimPost(raw.posts[i].len)
                    b == IF raw.posts[i].banned < t THEN raw.posts[i].banned ELSE t
                IN  IF minimalist THEN t - b ELSE t]]

ClipLabels == {"runway-clip-1", "runway-clip-2", "runway-clip-3"}

FnReturns(label) ==
    CASE label = "dexscreener-search"     -> PairResults \cup {Res("null")}
      [] label = "dexscreener-address"    -> PairResults \cup {Res("null")}
      [] label = "website-scrape"         -> {Res("html")}
      [] label = "logo-download"          -> {Res("buffer")}
      [] label = "openai-post-gen"        ->
            {parseResponse(raw, t, m) :
                raw \in RawResponses, t \in TickerLens, m \in BOOLEAN}
      [] label = "dalle-bg-gen"           -> {Res("url")}
      [] label = "shotstack-banner"       -> {Res("url")}
      [] label \in ClipLabels             -> {Res("url")}
      [] label = "shotstack-video-stitch" -> {Res("url")}
      [] OTHER                            -> {}

\* The possible results of one whole withRetry call.
RetryRuns(label, maxRetries) ==
    {withRetryRun(withRetryBegin(label, maxRetries, DefaultBaseDelayMs), o) :
        o \in [1..(maxRetries + 1) -> FnReturns(label) \cup {Err}]}

\* ------------------------------------------------------------------------
\* Values
\* ------------------------------------------------------------------------
NoToken ==
    [resolutionSource |-> "none", logoUrl |-> FALSE, websiteUrl |-> FALSE,
     contractAddress |-> FALSE]

NoWebsite == [found |-> FALSE, textLen |-> 0, scraped |-> FALSE]

NoLogo == [source |-> "none", uploaded |-> FALSE]

NoBanner == [background |-> "none", composited |-> FALSE, heroBannerUrl |-> "none"]

NoVideo == [launchVideoUrl |-> "none", clipsSucceeded |-> 0, source |-> "none"]

NoPosts == [kind |-> "none", posts |-> <<>>]

NoOutput ==
    [hero_banner_url |-> "none", launch_video_url |-> "none", posts |-> <<>>,
     confidence_level |-> 0, data_source |-> "none"]

Ev(e, stage) == <<e, stage>>

\* ------------------------------------------------------------------------
\* Initial state: a request has arrived at POST /generate
\* ------------------------------------------------------------------------
Idle ==
    /\ reply = 0
    /\ token = NoToken
    /\ website = NoWebsite
    /\ logo = NoLogo
    /\ officialLogo = FALSE
    /\ posts = NoPosts
    /\ fallbacksUsed = FALSE
    /\ bannerPc = "idle"
    /\ bannerResult = NoBanner
    /\ videoPc = "idle"
    /\ clips = [i \in 1..3 |-> "idle"]
    /\ videoResult = NoVideo
    /\ output = NoOutput
    /\ stageLog = <<>>
    /\ strategyLog = <<>>
    /\ raisedBy = ""
    /\ remoteOk = FALSE

\* no render is being polled
NoPoll == [loop |-> "none", at |-> "idle", elapsed |-> 0, polls |-> 0,
           status |-> "none"]

\* instants Date.now() can return
MaxClock == 2

Clock == 0..MaxClock

\* the two jobs of the concurrency study
Jobs == {1, 2}

\* no job is in manageLogo
NoExtract ==
    [j \in Jobs |-> [at |-> "idle", tmpPath |-> 0, dominant |-> "none",
                     palette |-> "none",
                     brandColors |-> [primary |-> "none", secondary |-> "none"],
                     client |-> "none"]]

NoFiles == [t \in Clock |-> "absent"]

\* nothing outside the request under study is active
Apart ==
    /\ poll = NoPoll
    /\ now = 0
    /\ tmpFiles = NoFiles
    /\ s3Client = "null"
    /\ extract = NoExtract
    /\ calls = <<>>

Init ==
    /\ body \in [ticker : BOOLEAN, contractAddress : BOOLEAN]
    /\ nClips \in ClipCounts
    /\ pc = "route"
    /\ retry = IdleRetry
    /\ Idle
    /\ Apart

jobVars == <<token, website, logo, officialLogo, posts, fallbacksUsed, output>>

branchVars == <<bannerPc, bannerResult, videoPc, clips, videoResult>>

jobsVars == <<now, tmpFiles, s3Client, extract>>

envVars == <<body, nClips, poll, jobsVars, calls>>

\* ------------------------------------------------------------------------
\* withRetry steps
\* ------------------------------------------------------------------------
\* One invocation of fn() returns.
Invoke ==
    /\ retry.st = "calling"
    /\ \E v \in FnReturns(retry.label) : retry' = withRetryOnReturn(retry, v)
    /\ remoteOk' = TRUE
    /\ UNCHANGED <<envVars, pc, reply, jobVars, branchVars, stageLog,
                   strategyLog, raisedBy>>

\* One invocation of fn() throws.
InvokeThrows ==
    /\ retry.st = "calling"
    /\ retry' = withRetryOnThrow(retry)
    /\ UNCHANGED <<envVars, pc, reply, jobVars, branchVars, stageLog,
                   strategyLog, raisedBy, remoteOk>>

\* The backoff timer fires.
Wake ==
    /\ retry.st = "waiting"
    /\ retry' = withRetryWake(retry)
    /\ UNCHANGED <<envVars, pc, reply, jobVars, branchVars, stageLog,
                   strategyLog, raisedBy, remoteOk>>

\* withRetry on its own: any label the program uses, any options.
InitRetry ==
    /\ body = [ticker |-> TRUE, contractAddress |-> FALSE]
    /\ nClips = AllClipsCount
    /\ pc = "withRetry"
    /\ \E l \in {"dexscreener-search", "openai-post-gen", "runway-clip-1"},
          m \in 0..MaxRetriesBound, b \in BaseDelayOptions :
          retry = withRetryBegin(l, m, b)
    /\ Idle
    /\ Apart

NextRetry == Invoke \/ InvokeThrows \/ Wake

SpecRetry == InitRetry /\ [][NextRetry]_vars

\* ------------------------------------------------------------------------
\* Route (src/api/generate.ts) and input validation (dist/modules/input.js)
\* ------------------------------------------------------------------------
\* Variant of validateInput that accepts every body
validateInput_Lenient(b) == "valid"

\* if (!body.ticker && !body.contractAddress) throw new InputValidationError
validateInput(b) == IF ~b.ticker /\ ~b.contractAddress THEN "invalid" ELSE "valid"

\* try { validateInput; runPipeline } catch (InputValidationError) { 400 }
\* runPipeline: let fallbacksUsed = false; resolveToken(...) is called.
RouteValidate ==
    /\ pc = "route"
    /\ IF validateInput(body) = "invalid"
       THEN /\ reply' = 400
            /\ pc' = "replied"
            /\ UNCHANGED <<fallbacksUsed, stageLog>>
       ELSE /\ pc' = "rt1"
            /\ fallbacksUsed' = FALSE
            /\ stageLog' = <<Ev("start", "resolveToken")>>
            /\ UNCHANGED reply
    /\ UNCHANGED <<envVars, retry, token, website, logo, officialLogo, posts,
                   output, branchVars, strategyLog, raisedBy, remoteOk>>

\* An exception escapes runPipeline at the given stage.
Raise(stage) ==
    /\ pc' = "raised"
    /\ raisedBy' = stage

\* catch (err) { ... reply.status(500) }
RouteCatch ==
    /\ pc = "raised"
    /\ reply' = 500
    /\ pc' = "replied"
    /\ UNCHANGED <<envVars, retry, jobVars, branchVars, stageLog, strategyLog,
                   raisedBy, remoteOk>>

\* return reply.status(200).send(output)
RouteReply ==
    /\ pc = "returned"
    /\ reply' = 200
    /\ pc' = "replied"
    /\ UNCHANGED <<envVars, retry, jobVars, branchVars, stageLog, strategyLog,
                   raisedBy, remoteOk>>

\* ------------------------------------------------------------------------
\* resolveToken (dist/modules/tokenResolver.js)
\* ------------------------------------------------------------------------
\* extractFromPair: resolutionSource "dexscreener"
extractFromPair(r) ==
    [resolutionSource |-> "dexscreener", logoUrl |-> r.logoUrl,
     websiteUrl |-> r.websiteUrl, contractAddress |-> TRUE]

\* Variant of UserToken: the user-tagged resolution names a website
UserToken_WithWebsite ==
    [NoToken EXCEPT !.resolutionSource = "user", !.contractAddress = TRUE,
                    !.websiteUrl = TRUE]

\* return { contractAddress, resolutionSource: "user" }
UserToken == [NoToken EXCEPT !.resolutionSource = "user", !.contractAddress = TRUE]

\* return { resolutionSource: "fallback" }
FallbackToken == [NoToken EXCEPT !.resolutionSource = "fallback"]

\* if (resolution) return resolution;  -- a strategy's value is acceptable
\* when withRetry returned a non-null resolution; a null result and an
\* exhausted retry (caught) both fall through to the next strategy.
Acceptable(r) == r.st = "returned" /\ r.result.kind = "pair"

\* Variant of LookupSettled: the lookup is given up at its first failure,
\* without waiting for the retry executor to finish.
LookupSettled_NoRetry == retry.st \in {"returned", "thrown", "waiting"}

\* the awaited withRetry has settled and resolveToken resumes
LookupSettled == Settled(retry)

\* Variant of fallbackAfterToken: the token fallback is not recorded.
fallbackAfterToken_Ignored(fu, t) == fu

\* orchestrator.js:40-41  if (token.resolutionSource === "fallback") fallbacksUsed = true;
fallbackAfterToken(fu, t) == IF t.resolutionSource = "fallback" THEN TRUE ELSE fu

\* resolveToken returns t; runPipeline resumes at line 40 and calls scrapeWebsite.
ReturnToken(t) ==
    /\ token' = t
    /\ fallbacksUsed' = fallbackAfterToken(fallbacksUsed, t)
    /\ stageLog' = stageLog \o <<Ev("end", "resolveToken"), Ev("start", "scrapeWebsite")>>
    /\ pc' = "scrape"

\* Strategy 1: if (ticker) withRetry(() => searchDexScreener(ticker))
ResolveSearch ==
    /\ pc = "rt1"
    /\ IF body.ticker
       THEN /\ retry' = withRetryBegin("dexscreener-search", DefaultMaxRetries,
                                       DefaultBaseDelayMs)
            /\ strategyLog' = Append(strategyLog, "search")
            /\ pc' = "rt1_wait"
       ELSE /\ pc' = "rt2"
            /\ UNCHANGED <<retry, strategyLog>>
    /\ UNCHANGED <<envVars, reply, jobVars, branchVars, stageLog, raisedBy, remoteOk>>

\* Variant of ResolveSearchDone without the try/catch around withRetry.
ResolveSearchDone_NoCatch ==
    /\ pc = "rt1_wait"
    /\ LookupSettled
    /\ retry' = IdleRetry
    /\ IF Acceptable(retry)
       THEN /\ ReturnToken(extractFromPair(retry.result))
            /\ UNCHANGED raisedBy
       ELSE IF retry.st = "thrown"
       THEN /\ Raise("resolveToken")
            /\ UNCHANGED <<token, fallbacksUsed, stageLog>>
       ELSE /\ pc' = "rt2"
            /\ UNCHANGED <<token, fallbacksUsed, stageLog, raisedBy>>
    /\ UNCHANGED <<envVars, reply, website, logo, officialLogo, posts, output,
                   branchVars, strategyLog, remoteOk>>

ResolveSearchDone ==
    /\ pc = "rt1_wait"
    /\ LookupSettled
    /\ retry' = IdleRetry
    /\ IF Acceptable(retry)
       THEN /\ ReturnToken(extractFromPair(retry.result))
       ELSE /\ pc' = "rt2"
            /\ UNCHANGED <<token, fallbacksUsed, stageLog>>
    /\ UNCHANGED <<envVars, reply, website, logo, officialLogo, posts, output,
                   branchVars, strategyLog, raisedBy, remoteOk>>

\* Strategy 2: if (contractAddress) withRetry(() => lookupByAddress(...));
\* otherwise Strategy 3, the full fallback.
ResolveAddress ==
    /\ pc = "rt2"
    /\ IF body.contractAddress
       THEN /\ retry' = withRetryBegin("dexscreener-address", DefaultMaxRetries,
                                       DefaultBaseDelayMs)
            /\ strategyLog' = Append(strategyLog, "address")
            /\ pc' = "rt2_wait"
            /\ UNCHANGED <<token, fallbacksUsed, stageLog>>
       ELSE /\ strategyLog' = Append(strategyLog, "default")
            /\ ReturnToken(FallbackToken)
            /\ UNCHANGED retry
    /\ UNCHANGED <<envVars, reply, website, logo, officialLogo, posts, output,
                   branchVars, raisedBy, remoteOk>>

\* Variant of ResolveAddressDone: an address lookup without a value falls
\* through to the full fallback.
ResolveAddressDone_FullFallback ==
    /\ pc = "rt2_wait"
    /\ LookupSettled
    /\ retry' = IdleRetry
    /\ IF Acceptable(retry)
       THEN /\ ReturnToken(extractFromPair(retry.result))
            /\ UNCHANGED strategyLog
       ELSE /\ strategyLog' = Append(strategyLog, "default")
            /\ ReturnToken(FallbackToken)
    /\ UNCHANGED <<envVars, reply, website, logo, officialLogo, posts, output,
                   branchVars, raisedBy, remoteOk>>

\* Address lookup settled: its resolution, or the user-provided address.
ResolveAddressDone ==
    /\ pc = "rt2_wait"
    /\ LookupSettled
    /\ retry' = IdleRetry
    /\ IF Acceptable(retry)
       THEN /\ ReturnToken(extractFromPair(retry.result))
            /\ UNCHANGED strategyLog
       ELSE /\ strategyLog' = Append(strategyLog, "user")
            /\ ReturnToken(UserToken)
    /\ UNCHANGED <<envVars, reply, website, logo, officialLogo, posts, output,
                   branchVars, raisedBy, remoteOk>>

\* ------------------------------------------------------------------------
\* scrapeWebsite (src/modules/input.ts:591-621)
\* ------------------------------------------------------------------------
MaxExtractedChars == 1500

MinUsableChars == 20

\* lengths of the text gathered from a page before it is cut
CombinedLens == {0, MinUsableChars - 1, MinUsableChars, MaxExtractedChars + 1}

\* return combined.slice(0, MAX_EXTRACTED_CHARS)
extractContent(combinedLen) ==
    IF combinedLen > MaxExtractedChars THEN MaxExtractedChars ELSE combinedLen

\* lengths extractContent can produce
ExtractedLens == {extractContent(n) : n \in CombinedLens}

\* return { found: false };
NotFound == [found |-> FALSE, textLen |-> 0, scraped |-> TRUE]

\* Variant of scrapeResult that only rejects an empty extraction.
scrapeResult_NoMinimum(len) ==
    IF len = 0 THEN [found |-> FALSE, textLen |-> 0, scraped |-> TRUE]
    ELSE [found |-> TRUE, textLen |-> len, scraped |-> TRUE]

\* if (!extractedText || extractedText.length < 20) return { found: false };
\* return { extractedText, found: true };
scrapeResult(len) ==
    IF len < MinUsableChars THEN NotFound
    ELSE [found |-> TRUE, textLen |-> len, scraped |-> TRUE]

\* scrapeWebsite returns w; runPipeline resumes and calls manageLogo.
ReturnWebsite(w) ==
    /\ website' = w
    /\ stageLog' = stageLog \o <<Ev("end", "scrapeWebsite"), Ev("start", "manageLogo")>>
    /\ pc' = "logo"

ScrapeWebsite ==
    /\ pc = "scrape"
    /\ IF ~token.websiteUrl
       THEN /\ ReturnWebsite(NotFound)
            /\ UNCHANGED retry
       ELSE /\ retry' = withRetryBegin("website-scrape", DefaultMaxRetries,
                                       DefaultBaseDelayMs)
            /\ pc' = "scrape_wait"
            /\ UNCHANGED <<website, stageLog>>
    /\ UNCHANGED <<envVars, reply, token, logo, officialLogo, posts,
                   fallbacksUsed, output, branchVars, strategyLog, raisedBy, remoteOk>>

ScrapeWebsiteDone ==
    /\ pc = "scrape_wait"
    /\ Settled(retry)
    /\ retry' = IdleRetry
    /\ IF retry.st = "returned"
       THEN \E len \in ExtractedLens : ReturnWebsite(scrapeResult(len))
       ELSE ReturnWebsite(NotFound)
    /\ UNCHANGED <<envVars, reply, token, logo, officialLogo, posts,
                   fallbacksUsed, output, branchVars, strategyLog, raisedBy, remoteOk>>

\* ------------------------------------------------------------------------
\* uploadBuffer (src/modules/assetUploader.ts:28-56)
\* ------------------------------------------------------------------------
\* process.env.S3_BUCKET is read on every call: without it a placeholder URL
\* is returned and no remote call is made; with it, client.send either
\* succeeds or throws.
UploadOutcomes == {"ok", "throw", "placeholder"}

\* ------------------------------------------------------------------------
\* manageLogo (dist/modules/logoManager.js:13-38)
\* ------------------------------------------------------------------------
ManageLogo ==
    /\ pc = "logo"
    /\ IF token.logoUrl
       THEN /\ retry' = withRetryBegin("logo-download", DefaultMaxRetries,
                                       DefaultBaseDelayMs)
            /\ pc' = "logo_wait"
            /\ UNCHANGED logo
       ELSE /\ logo' = [logo EXCEPT !.source = "placeholder"]
            /\ pc' = "logo_png"
            /\ UNCHANGED retry
    /\ UNCHANGED <<envVars, reply, token, website, officialLogo, posts,
                   fallbacksUsed, output, branchVars, stageLog, strategyLog,
                   raisedBy, remoteOk>>

\* try { logoBuffer = await withRetry(download) } catch { createPlaceholderLogo }
ManageLogoDownloaded ==
    /\ pc = "logo_wait"
    /\ Settled(retry)
    /\ retry' = IdleRetry
    /\ logo' = [logo EXCEPT !.source =
                   IF retry.st = "returned" THEN "downloaded" ELSE "placeholder"]
    /\ pc' = "logo_png"
    /\ UNCHANGED <<envVars, reply, token, website, officialLogo, posts,
                   fallbacksUsed, output, branchVars, stageLog, strategyLog,
                   raisedBy, remoteOk>>

\* const pngBuffer = await sharp(logoBuffer).png().toBuffer();  -- outside any
\* try: downloaded bytes that are not an image make it throw.
\* const brandColors = await extractColors(pngBuffer);  -- never throws: the
\* palette ColorThief finds or, from its catch, the default one; brandColors
\* only feed the prompts and the renders.
ManageLogoConvert ==
    /\ pc = "logo_png"
    /\ \/ /\ pc' = "logo_upload"
          /\ UNCHANGED raisedBy
       \/ /\ logo.source = "downloaded"
          /\ Raise("manageLogo")
    /\ UNCHANGED <<envVars, reply, retry, jobVars, branchVars, stageLog,
                   strategyLog, remoteOk>>

\* Variant of officialLogoOf: only a coingecko logo counts as official.
officialLogoOf_CoingeckoOnly(t) == t.logoUrl /\ t.resolutionSource = "coingecko"

\* orchestrator.js:64
officialLogoOf(t) ==
    t.logoUrl /\ (t.resolutionSource = "coingecko" \/ t.resolutionSource = "dexscreener")

\* Variant of ManageLogoUpload: the logo counts as official only if the
\* image itself was downloaded.
ManageLogoUpload_ContentVerified ==
    /\ pc = "logo_upload"
    /\ \E o \in UploadOutcomes :
          IF o = "throw"
          THEN /\ Raise("manageLogo")
               /\ UNCHANGED <<logo, officialLogo, stageLog, remoteOk>>
          ELSE /\ logo' = [logo EXCEPT !.uploaded = TRUE]
               /\ officialLogo' = (officialLogoOf(token) /\ logo.source = "downloaded")
               /\ stageLog' = stageLog \o <<Ev("end", "manageLogo"),
                                            Ev("start", "classifyUtility")>>
               /\ pc' = "classify"
               /\ remoteOk' = (remoteOk \/ o = "ok")
               /\ UNCHANGED raisedBy
    /\ UNCHANGED <<envVars, reply, retry, token, website, posts,
                   fallbacksUsed, output, branchVars, strategyLog>>

\* const finalLogoUrl = await uploadBuffer(...); return { finalLogoUrl, brandColors };
\* runPipeline resumes at line 64.
ManageLogoUpload ==
    /\ pc = "logo_upload"
    /\ \E o \in UploadOutcomes :
          IF o = "throw"
          THEN /\ Raise("manageLogo")
               /\ UNCHANGED <<logo, officialLogo, stageLog, remoteOk>>
          ELSE /\ logo' = [logo EXCEPT !.uploaded = TRUE]
               /\ officialLogo' = officialLogoOf(token)
               /\ stageLog' = stageLog \o <<Ev("end", "manageLogo"),
                                            Ev("start", "classifyUtility")>>
               /\ pc' = "classify"
               /\ remoteOk' = (remoteOk \/ o = "ok")
               /\ UNCHANGED raisedBy
    /\ UNCHANGED <<envVars, reply, retry, token, website, posts,
                   fallbacksUsed, output, branchVars, strategyLog>>

\* ------------------------------------------------------------------------
\* classifyUtility (dist/modules/utilityClassifier.js:19-47)
\* ------------------------------------------------------------------------
MaxHits == 2

\* Variant of classifyUtility: when both sets match, the larger count wins
classifyUtility_Majority(protocolHits, cultureHits) ==
    IF protocolHits > 0 /\ cultureHits > 0
    THEN (IF protocolHits > cultureHits THEN "protocol"
          ELSE IF cultureHits > protocolHits THEN "culture" ELSE "hybrid")
    ELSE IF protocolHits > 0 THEN "protocol"
    ELSE IF cultureHits > 0 THEN "culture"
    ELSE "hybrid"

\* utilityClassifier.js:31-44, on the two counts
classifyUtility(protocolHits, cultureHits) ==
    IF protocolHits > 0 /\ cultureHits > 0
    THEN (IF protocolHits >= cultureHits THEN "hybrid" ELSE "hybrid")
    ELSE IF protocolHits > 0 THEN "protocol"
    ELSE IF cultureHits > 0 THEN "culture"
    ELSE "hybrid"

\* orchestrator.js:72-75; the class only feeds the prompts and the tone profile
ClassifyUtility ==
    /\ pc = "classify"
    /\ \E ph \in 0..MaxHits, ch \in 0..MaxHits :
          classifyUtility(ph, ch) \in {"protocol", "culture", "hybrid"}
    /\ stageLog' = stageLog \o <<Ev("end", "classifyUtility"),
                                 Ev("start", "buildCreativeBrief")>>
    /\ pc' = "brief"
    /\ UNCHANGED <<envVars, reply, retry, jobVars, branchVars, strategyLog,
                   raisedBy, remoteOk>>

\* orchestrator.js:77  buildCreativeBrief(ticker, token, logo, utilityClass, website)
BuildCreativeBrief ==
    /\ pc = "brief"
    /\ stageLog' = stageLog \o <<Ev("end", "buildCreativeBrief"),
                                 Ev("start", "resolveToneProfile")>>
    /\ pc' = "tone"
    /\ UNCHANGED <<envVars, reply, retry, jobVars, branchVars, strategyLog,
                   raisedBy, remoteOk>>

\* Variant of ResolveToneProfile: the three generators of stage 3 are all
\* started together, banner and video not waiting for the posts.
ResolveToneProfile_AllParallel ==
    /\ pc = "tone"
    /\ stageLog' = stageLog \o <<Ev("end", "resolveToneProfile"),
                                 Ev("start", "generatePosts"),
                                 Ev("start", "generateBanner"),
                                 Ev("start", "generateVideo")>>
    /\ retry' = withRetryBegin("openai-post-gen", DefaultMaxRetries,
                               DefaultBaseDelayMs)
    /\ bannerPc' = "bg"
    /\ videoPc' = "clips"
    /\ clips' = [i \in 1..3 |-> IF i <= nClips THEN "pending" ELSE "idle"]
    /\ pc' = "posts_wait"
    /\ UNCHANGED <<envVars, reply, jobVars, bannerResult, videoResult,
                   strategyLog, raisedBy, remoteOk>>

\* orchestrator.js:83-92  resolveToneProfile(...); generatePosts(...) is called
ResolveToneProfile ==
    /\ pc = "tone"
    /\ stageLog' = stageLog \o <<Ev("end", "resolveToneProfile"),
                                 Ev("start", "generatePosts")>>
    /\ retry' = withRetryBegin("openai-post-gen", DefaultMaxRetries,
                               DefaultBaseDelayMs)
    /\ pc' = "posts_wait"
    /\ UNCHANGED <<envVars, reply, jobVars, branchVars, strategyLog,
                   raisedBy, remoteOk>>

\* ------------------------------------------------------------------------
\* generatePosts (dist postGenerator, src/dist/modules/input.d.ts:20-40) and
\* the fan-out of banner and video generation (orchestrator.js:92-119)
\* ------------------------------------------------------------------------
\* Promise.all([generateBanner(...), generateVideo(...)]): both calls run up to
\* their first await: the background generation is in flight, and so is every
\* clip generation (Promise.allSettled(clipPrompts.map(... withRetry ...))).
StartBranches ==
    /\ bannerPc' = "bg"
    /\ videoPc' = "clips"
    /\ clips' = [i \in 1..3 |-> IF i <= nClips THEN "pending" ELSE "idle"]

\* generatePosts has no try/catch around withRetry: an exhausted retry
\* propagates to runPipeline, which has none either.
GeneratePostsDone ==
    /\ pc = "posts_wait"
    /\ Settled(retry)
    /\ retry' = IdleRetry
    /\ IF retry.st = "returned"
       THEN /\ posts' = [kind |-> retry.result.kind, posts |-> retry.result.posts]
            /\ stageLog' = stageLog \o <<Ev("end", "generatePosts"),
                                         Ev("start", "generateBanner"),
                                         Ev("start", "generateVideo")>>
            /\ StartBranches
            /\ pc' = "await_all"
            /\ UNCHANGED raisedBy
       ELSE /\ Raise("generatePosts")
            /\ UNCHANGED <<posts, stageLog, bannerPc, videoPc, clips>>
    /\ UNCHANGED <<envVars, reply, token, website, logo, officialLogo,
                   fallbacksUsed, output, bannerResult, videoResult, strategyLog,
                   remoteOk>>

\* ------------------------------------------------------------------------
\* generateBanner (dist bannerGenerator, src/dist/modules/tokenResolver.js:145-170)
\* ------------------------------------------------------------------------
\* try { bgUrl = await withRetry(generateBackground) } catch { fallback }
BannerBackground ==
    /\ bannerPc = "bg"
    /\ \E r \in RetryRuns("dalle-bg-gen", DefaultMaxRetries) :
          IF r.st = "returned"
          THEN /\ bannerResult' = [bannerResult EXCEPT !.background = "generated"]
               /\ bannerPc' = "composite"
               /\ remoteOk' = TRUE
          ELSE /\ bannerPc' = "bg_fallback"
               /\ UNCHANGED <<bannerResult, remoteOk>>
    /\ UNCHANGED <<envVars, pc, reply, retry, jobVars, videoPc, clips, videoResult,
                   stageLog, strategyLog, raisedBy>>

\* catch { bgUrl = await generateFallbackBackground(...) }: the gradient is
\* uploaded with uploadBuffer, inside the catch block and outside any try.
BannerFallbackBackground ==
    /\ bannerPc = "bg_fallback"
    /\ \E o \in UploadOutcomes :
          IF o = "throw"
          THEN /\ bannerPc' = "rejected"
               /\ UNCHANGED <<bannerResult, remoteOk>>
          ELSE /\ bannerResult' = [bannerResult EXCEPT !.background = "gradient"]
               /\ bannerPc' = "composite"
               /\ remoteOk' = (remoteOk \/ o = "ok")
    /\ UNCHANGED <<envVars, pc, reply, retry, jobVars, videoPc, clips, videoResult,
                   stageLog, strategyLog, raisedBy>>

\* try { compositeUrl = await withRetry(composite) } catch { compositeUrl = bgUrl }
BannerComposite ==
    /\ bannerPc = "composite"
    /\ \E r \in RetryRuns("shotstack-banner", DefaultMaxRetries) :
          /\ bannerResult' = [bannerResult EXCEPT !.composited = (r.st = "returned")]
          /\ remoteOk' = (remoteOk \/ r.st = "returned")
    /\ bannerPc' = "download"
    /\ UNCHANGED <<envVars, pc, reply, retry, jobVars, videoPc, clips, videoResult,
                   stageLog, strategyLog, raisedBy>>

\* finalizeAndUpload: axios.get(imageUrl) and the sharp resize, outside any try
BannerDownload ==
    /\ bannerPc = "download"
    /\ \/ /\ bannerPc' = "upload"
          /\ remoteOk' = TRUE
       \/ /\ bannerPc' = "rejected"
          /\ UNCHANGED remoteOk
    /\ UNCHANGED <<envVars, pc, reply, retry, jobVars, bannerResult, videoPc, clips,
                   videoResult, stageLog, strategyLog, raisedBy>>

\* finalizeAndUpload: return uploadBuffer(...); then the .then of line 106
BannerUpload ==
    /\ bannerPc = "upload"
    /\ \E o \in UploadOutcomes :
          IF o = "throw"
          THEN /\ bannerPc' = "rejected"
               /\ UNCHANGED <<bannerResult, stageLog, remoteOk>>
          ELSE /\ bannerResult' = [bannerResult EXCEPT !.heroBannerUrl = "uploaded"]
               /\ bannerPc' = "fulfilled"
               /\ stageLog' = Append(stageLog, Ev("end", "generateBanner"))
               /\ remoteOk' = (remoteOk \/ o = "ok")
    /\ UNCHANGED <<envVars, pc, reply, retry, jobVars, videoPc, clips, videoResult,
                   strategyLog, raisedBy>>

\* ------------------------------------------------------------------------
\* generateVideo (src/modules/input.ts:274-331) and the .then of
\* orchestrator.js:111-118
\* ------------------------------------------------------------------------
ClipLabel(i) ==
    IF i = 1 THEN "runway-clip-1" ELSE IF i = 2 THEN "runway-clip-2" ELSE "runway-clip-3"

\* withRetry(() => generateRunwayClip(prompt), { maxRetries: 1 }) settles
ClipSettles(i) ==
    /\ videoPc = "clips"
    /\ clips[i] = "pending"
    /\ \E r \in RetryRuns(ClipLabel(i), ClipRetries) :
          /\ clips' = [clips EXCEPT ![i] =
                          IF r.st = "returned" THEN "fulfilled" ELSE "rejected"]
          /\ remoteOk' = (remoteOk \/ r.st = "returned")
    /\ UNCHANGED <<envVars, pc, reply, retry, jobVars, bannerPc, bannerResult,
                   videoPc, videoResult, stageLog, strategyLog, raisedBy>>

\* Variant of fallbackAfterVideo: fallbacksUsed = v.clipsSucceeded < 2
fallbackAfterVideo_Assign(fu, v) == v.clipsSucceeded < AllClipsCount

\* Variant of fallbackAfterVideo: only a video without any clip sets the flag
fallbackAfterVideo_NoneOnly(fu, v) == IF v.clipsSucceeded = 0 THEN TRUE ELSE fu

\* orchestrator.js:112-113  if (v.clipsSucceeded < 2) fallbacksUsed = true;
fallbackAfterVideo(fu, v) == IF v.clipsSucceeded < AllClipsCount THEN TRUE ELSE fu

\* generateVideo returns v and the .then handler of the branch runs.
ReturnVideo(v) ==
    /\ videoResult' = v
    /\ fallbacksUsed' = fallbackAfterVideo(fallbacksUsed, v)
    /\ videoPc' = "fulfilled"
    /\ stageLog' = Append(stageLog, Ev("end", "generateVideo"))

\* Variant of VideoClipsSettled with Promise.all in place of
\* Promise.allSettled: the first rejection ends the wait.
VideoClipsSettled_PromiseAll ==
    /\ videoPc = "clips"
    /\ \/ \A i \in 1..nClips : clips[i] = "fulfilled"
       \/ \E i \in 1..nClips : clips[i] = "rejected"
    /\ LET n == Cardinality({i \in 1..nClips : clips[i] = "fulfilled"})
       IN  /\ videoResult' = [videoResult EXCEPT !.clipsSucceeded = n]
           /\ videoPc' = IF n = 0 THEN "fallback_video" ELSE "stitch"
    /\ clips' = [i \in 1..3 |-> "idle"]
    /\ UNCHANGED <<envVars, pc, reply, retry, jobVars, bannerPc, bannerResult,
                   stageLog, strategyLog, raisedBy, remoteOk>>

\* Promise.allSettled has every clip outcome; clipsSucceeded = successfulClips.length;
\* the settled promises are of no further use
VideoClipsSettled ==
    /\ videoPc = "clips"
    /\ \A i \in 1..nClips : clips[i] \in {"fulfilled", "rejected"}
    /\ LET n == Cardinality({i \in 1..nClips : clips[i] = "fulfilled"})
       IN  /\ videoResult' = [videoResult EXCEPT !.clipsSucceeded = n]
           /\ videoPc' = IF n = 0 THEN "fallback_video" ELSE "stitch"
    /\ clips' = [i \in 1..3 |-> "idle"]
    /\ UNCHANGED <<envVars, pc, reply, retry, jobVars, bannerPc, bannerResult,
                   stageLog, strategyLog, raisedBy, remoteOk>>

\* generateFallbackVideo: the rendered text card, or bannerUrl when there is no
\* API key or the render fails (try/catch); return { ..., clipsSucceeded: 0 }
VideoFallback ==
    /\ videoPc = "fallback_video"
    /\ \E o \in {"rendered", "bannerUrl"} :
          /\ ReturnVideo([launchVideoUrl |-> o, clipsSucceeded |-> 0,
                          source |-> "fallback"])
          /\ remoteOk' = (remoteOk \/ o = "rendered")
    /\ UNCHANGED <<envVars, pc, reply, retry, token, website, logo, officialLogo,
                   posts, output, bannerPc, bannerResult, clips, strategyLog,
                   raisedBy>>

\* Variant of VideoStitch without the try/catch: an exhausted stitch rejects
\* generateVideo.
VideoStitch_NoCatch ==
    /\ videoPc = "stitch"
    /\ \E r \in RetryRuns("shotstack-video-stitch", DefaultMaxRetries) :
          /\ videoResult' = [videoResult EXCEPT !.source =
                                IF r.st = "returned" THEN "stitched" ELSE "none"]
          /\ videoPc' = IF r.st = "returned" THEN "video_upload" ELSE "rejected"
          /\ remoteOk' = (remoteOk \/ r.st = "returned")
    /\ UNCHANGED <<envVars, pc, reply, retry, jobVars, bannerPc, bannerResult,
                   clips, stageLog, strategyLog, raisedBy>>

\* try { videoUrl = await withRetry(stitch) } catch { videoUrl = successfulClips[0] }
VideoStitch ==
    /\ videoPc = "stitch"
    /\ \E r \in RetryRuns("shotstack-video-stitch", DefaultMaxRetries) :
          /\ videoResult' = [videoResult EXCEPT !.source =
                                IF r.st = "returned" THEN "stitched" ELSE "firstClip"]
          /\ remoteOk' = (remoteOk \/ r.st = "returned")
    /\ videoPc' = "video_upload"
    /\ UNCHANGED <<envVars, pc, reply, retry, jobVars, bannerPc, bannerResult,
                   clips, stageLog, strategyLog, raisedBy>>

\* finalizeAndUploadVideo: the uploaded URL, or videoUrl itself when the
\* download or the upload throws (try/catch)
VideoUpload ==
    /\ videoPc = "video_upload"
    /\ \E o \in {"uploaded", "sourceUrl"} :
          /\ ReturnVideo([videoResult EXCEPT !.launchVideoUrl = o])
          /\ remoteOk' = (remoteOk \/ o = "uploaded")
    /\ UNCHANGED <<envVars, pc, reply, retry, token, website, logo, officialLogo,
                   posts, output, bannerPc, bannerResult, clips, strategyLog,
                   raisedBy>>

\* ------------------------------------------------------------------------
\* Fan-in, confidence and report (orchestrator.js:104-153)
\* ------------------------------------------------------------------------
\* Variant of computeConfidence without the floor Math.max(1, score).
computeConfidence_NoFloor(factors) ==
    (IF factors.websiteFound THEN 1 ELSE 0)
  + (IF factors.officialLogo THEN 1 ELSE 0)
  + (IF factors.allClipsSucceeded THEN 1 ELSE 0)
  + (IF factors.noFallbacksUsed THEN 1 ELSE 0)

\* computeConfidence (dist confidenceScorer, utilityClassifier.js:66-80)
computeConfidence(factors) ==
    LET score == (IF factors.websiteFound THEN 1 ELSE 0)
               + (IF factors.officialLogo THEN 1 ELSE 0)
               + (IF factors.allClipsSucceeded THEN 1 ELSE 0)
               + (IF factors.noFallbacksUsed THEN 1 ELSE 0)
    IN  IF score > 1 THEN score ELSE 1

\* Variant of determineDataSource: a fallback resolution alone makes the job
\* "thematic_only", and any found website makes it "website".
determineDataSource_Loose(websiteFound, resolutionSource) ==
    IF resolutionSource = "fallback" THEN "thematic_only"
    ELSE IF websiteFound THEN "website"
    ELSE "mixed"

\* orchestrator.js:169-175
determineDataSource(websiteFound, resolutionSource) ==
    IF websiteFound /\ (resolutionSource = "coingecko" \/ resolutionSource = "dexscreener")
    THEN "website"
    ELSE IF ~websiteFound /\ resolutionSource = "fallback"
    THEN "thematic_only"
    ELSE "mixed"

\* Variant of Factors: any uploaded logo counts as the official logo
Factors_AnyLogo ==
    [websiteFound |-> website.found,
     officialLogo |-> logo.uploaded,
     allClipsSucceeded |-> (videoResult.clipsSucceeded = AllClipsCount),
     noFallbacksUsed |-> ~fallbacksUsed]

\* orchestrator.js:124-129
Factors ==
    [websiteFound |-> website.found,
     officialLogo |-> officialLogo,
     allClipsSucceeded |-> (videoResult.clipsSucceeded = AllClipsCount),
     noFallbacksUsed |-> ~fallbacksUsed]

\* Variant of PromiseAllFulfilled: only the banner branch is awaited.
PromiseAllFulfilled_BannerOnly == bannerPc = "fulfilled"

\* Promise.all resolves once both branches have fulfilled
PromiseAllFulfilled == bannerPc = "fulfilled" /\ videoPc = "fulfilled"

\* Promise.all rejects as soon as one branch rejects
PromiseAllRejected == bannerPc = "rejected" \/ videoPc = "rejected"

PipelineFinish ==
    /\ pc = "await_all"
    /\ PromiseAllFulfilled
    /\ output' = [hero_banner_url |-> bannerResult.heroBannerUrl,
                  launch_video_url |-> videoResult.launchVideoUrl,
                  posts |-> posts.posts,
                  confidence_level |-> computeConfidence(Factors),
                  data_source |-> determineDataSource(website.found,
                                                      token.resolutionSource)]
    /\ pc' = "returned"
    /\ UNCHANGED <<envVars, reply, retry, token, website, logo, officialLogo,
                   posts, fallbacksUsed, branchVars, stageLog, strategyLog,
                   raisedBy, remoteOk>>

\* No try/catch around the await: the rejection escapes runPipeline at once,
\* whatever the other branch is doing.
PipelineReject ==
    /\ pc = "await_all"
    /\ PromiseAllRejected
    /\ Raise(IF bannerPc = "rejected" THEN "generateBanner" ELSE "generateVideo")
    /\ UNCHANGED <<envVars, reply, retry, jobVars, branchVars, stageLog,
                   strategyLog, remoteOk>>

\* ------------------------------------------------------------------------
\* Specification
\* ------------------------------------------------------------------------
Next ==
    \/ RouteValidate
    \/ RouteCatch
    \/ RouteReply
    \/ Invoke
    \/ InvokeThrows
    \/ Wake
    \/ ResolveSearch
    \/ ResolveSearchDone
    \/ ResolveAddress
    \/ ResolveAddressDone
    \/ ScrapeWebsite
    \/ ScrapeWebsiteDone
    \/ ManageLogo
    \/ ManageLogoDownloaded
    \/ ManageLogoConvert
    \/ ManageLogoUpload
    \/ ClassifyUtility
    \/ BuildCreativeBrief
    \/ ResolveToneProfile
    \/ GeneratePostsDone
    \/ BannerBackground
    \/ BannerFallbackBackground
    \/ BannerComposite
    \/ BannerDownload
    \/ BannerUpload
    \/ \E i \in 1..3 : ClipSettles(i)
    \/ VideoClipsSettled
    \/ VideoFallback
    \/ VideoStitch
    \/ VideoUpload
    \/ PipelineFinish
    \/ PipelineReject

Spec == Init /\ [][Next]_vars

\* ------------------------------------------------------------------------
\* pollShotstackRender (banner: dist/modules/tokenResolver.js:288-307,
\* video: src/modules/input.ts:439-464), times in milliseconds
\* ------------------------------------------------------------------------
PollLoops == {"banner", "video"}

\* const maxWait = 120_000 (banner) / 180_000 (video)
maxWait(loop) == IF loop = "banner" THEN 120000 ELSE 180000

\* const interval = 5_000 (banner) / 10_000 (video)
interval(loop) == IF loop = "banner" THEN 5000 ELSE 10000

\* axios.get(..., { timeout: 10000 })
RequestTimeoutMs == 10000

\* time a status request takes when it is answered
ResponseDelays == {0, RequestTimeoutMs \div 4}

\* response.status values of a render
RenderStatuses == {"queued", "rendering", "done", "failed"}

\* const start = Date.now(); the loop is about to test its condition
PollBegin(loop) ==
    [loop |-> loop, at |-> "check", elapsed |-> 0, polls |-> 0, status |-> "none"]

\* Variant of withinMaxWait: while (true)
withinMaxWait_Forever(p) == TRUE

\* while (Date.now() - start < maxWait)
withinMaxWait(p) == p.elapsed < maxWait(p.loop)

pipelineVars == <<body, nClips, pc, reply, retry, jobVars, branchVars, stageLog,
                  strategyLog, raisedBy, remoteOk>>

\* the loop condition is evaluated; after the loop: throw "... timed out"
PollCheck ==
    /\ poll.at = "check"
    /\ poll' = [poll EXCEPT !.at = IF withinMaxWait(poll) THEN "request"
                                   ELSE "timedOut"]
    /\ UNCHANGED <<pipelineVars, jobsVars, calls>>

\* axios.get answers: return the url on "done", throw on "failed", otherwise
\* go to sleep for interval
PollResponse ==
    /\ poll.at = "request"
    /\ \E d \in ResponseDelays, st \in RenderStatuses :
          poll' = [poll EXCEPT !.elapsed = @ + d,
                               !.polls = @ + 1,
                               !.status = st,
                               !.at = IF st = "done" THEN "returned"
                                      ELSE IF st = "failed" THEN "failed"
                                      ELSE "sleep"]
    /\ UNCHANGED <<pipelineVars, jobsVars, calls>>

\* axios.get throws (network error, status >= 400, or its 10 s timeout); the
\* exception leaves the loop
PollRequestThrows ==
    /\ poll.at = "request"
    /\ \E d \in ResponseDelays \cup {RequestTimeoutMs} :
          poll' = [poll EXCEPT !.elapsed = @ + d,
                               !.polls = @ + 1,
                               !.status = "none",
                               !.at = "requestError"]
    /\ UNCHANGED <<pipelineVars, jobsVars, calls>>

\* await new Promise((r) => setTimeout(r, interval))
PollSleep ==
    /\ poll.at = "sleep"
    /\ poll' = [poll EXCEPT !.elapsed = @ + interval(poll.loop), !.at = "check"]
    /\ UNCHANGED <<pipelineVars, jobsVars, calls>>

\* pollShotstackRender on its own, for either render
InitPoll ==
    /\ body = [ticker |-> TRUE, contractAddress |-> FALSE]
    /\ nClips = AllClipsCount
    /\ pc = "pollShotstackRender"
    /\ retry = IdleRetry
    /\ Idle
    /\ \E l \in PollLoops : poll = PollBegin(l)
    /\ now = 0
    /\ tmpFiles = NoFiles
    /\ s3Client = "null"
    /\ extract = NoExtract
    /\ calls = <<>>

NextPoll == PollCheck \/ PollResponse \/ PollRequestThrows \/ PollSleep

\* the event loop delivers every response, request timeout and timer
SpecPoll == InitPoll /\ [][NextPoll]_vars /\ WF_vars(NextPoll)

\* ------------------------------------------------------------------------
\* Two jobs in the tail of manageLogo: extractColors
\* (dist/modules/logoManager.js:66-84) and uploadBuffer / getClient
\* (src/modules/assetUploader.ts:9-56). A colour is named by the logo it was
\* taken from; a temporary file is named by the instant in its path.
\* ------------------------------------------------------------------------
\* the PNG buffer job j holds
pngBuffer(j) == IF j = 1 THEN "logo1" ELSE "logo2"

\* return { primary: "#6366f1", secondary: "#8b5cf6" } in the catch block
DefaultColors == [primary |-> "default", secondary |-> "default"]

\* the clock of the process advances
Tick ==
    /\ now < MaxClock
    /\ now' = now + 1
    /\ UNCHANGED <<pipelineVars, poll, calls, tmpFiles, s3Client, extract>>

\* const tmpPath = `/tmp/logo-${Date.now()}.png`
ExtractBegin(j) ==
    /\ extract[j].at = "start"
    /\ extract' = [extract EXCEPT ![j].tmpPath = now, ![j].at = "writeFile"]
    /\ UNCHANGED <<pipelineVars, poll, calls, now, tmpFiles, s3Client>>

\* await fs.writeFile(tmpPath, pngBuffer)
ExtractWrite(j) ==
    /\ extract[j].at = "writeFile"
    /\ tmpFiles' = [tmpFiles EXCEPT ![extract[j].tmpPath] = pngBuffer(j)]
    /\ extract' = [extract EXCEPT ![j].at = "getColor"]
    /\ UNCHANGED <<pipelineVars, poll, calls, now, s3Client>>

\* const dominant = await ColorThief.getColor(tmpPath); a missing file throws
\* and the catch block returns the default colours
ExtractGetColor(j) ==
    /\ extract[j].at = "getColor"
    /\ LET file == tmpFiles[extract[j].tmpPath]
       IN  extract' = IF file = "absent"
                      THEN [extract EXCEPT ![j].brandColors = DefaultColors,
                                           ![j].at = "upload"]
                      ELSE [extract EXCEPT ![j].dominant = file,
                                           ![j].at = "getPalette"]
    /\ UNCHANGED <<pipelineVars, poll, calls, now, tmpFiles, s3Client>>

\* const palette = await ColorThief.getPalette(tmpPath, 5)
ExtractGetPalette(j) ==
    /\ extract[j].at = "getPalette"
    /\ LET file == tmpFiles[extract[j].tmpPath]
       IN  extract' = IF file = "absent"
                      THEN [extract EXCEPT ![j].brandColors = DefaultColors,
                                           ![j].at = "upload"]
                      ELSE [extract EXCEPT ![j].palette = file,
                                           ![j].at = "unlink"]
    /\ UNCHANGED <<pipelineVars, poll, calls, now, tmpFiles, s3Client>>

\* await fs.unlink(tmpPath).catch(() => {}); return { primary, secondary }
ExtractUnlink(j) ==
    /\ extract[j].at = "unlink"
    /\ tmpFiles' = [tmpFiles EXCEPT ![extract[j].tmpPath] = "absent"]
    /\ extract' = [extract EXCEPT
                      ![j].brandColors = [primary |-> extract[j].dominant,
                                          secondary |-> extract[j].palette],
                      ![j].at = "upload"]
    /\ UNCHANGED <<pipelineVars, poll, calls, now, s3Client>>

\* if (!s3Client) { s3Client = new S3Client(...) } return s3Client;
getClient(c) == IF c = "null" THEN "client" ELSE c

\* uploadBuffer: const client = getClient(); await client.send(...)
ExtractUpload(j) ==
    /\ extract[j].at = "upload"
    /\ s3Client' = getClient(s3Client)
    /\ extract' = [extract EXCEPT ![j].client = getClient(s3Client),
                                  ![j].at = "done"]
    /\ UNCHANGED <<pipelineVars, poll, calls, now, tmpFiles>>

\* two requests are being served; each is about to call extractColors
InitJobs ==
    /\ body = [ticker |-> TRUE, contractAddress |-> FALSE]
    /\ nClips = AllClipsCount
    /\ pc = "extractColors"
    /\ retry = IdleRetry
    /\ Idle
    /\ poll = NoPoll
    /\ now = 0
    /\ tmpFiles = NoFiles
    /\ s3Client = "null"
    /\ extract = [j \in Jobs |-> [NoExtract[j] EXCEPT !.at = "start"]]
    /\ calls = <<>>

NextJobs ==
    \/ Tick
    \/ \E j \in Jobs : ExtractBegin(j)
    \/ \E j \in Jobs : ExtractWrite(j)
    \/ \E j \in Jobs : ExtractGetColor(j)
    \/ \E j \in Jobs : ExtractGetPalette(j)
    \/ \E j \in Jobs : ExtractUnlink(j)
    \/ \E j \in Jobs : ExtractUpload(j)

SpecJobs == InitJobs /\ [][NextJobs]_vars

\* ------------------------------------------------------------------------
\* Pure functions of the pipeline: strings
\* ------------------------------------------------------------------------
\* String.prototype.toLowerCase on the strings used below
toLowerCase(str) ==
    CASE str = "HYPE" -> "hype"
      [] str = "Stealth" -> "stealth"
      [] str = " Space " -> " space "
      [] str = "Neon" -> "neon"
      [] OTHER -> str

\* String.prototype.trim on the strings used below
trimmed(str) ==
    CASE str = " space " -> "space"
      [] str = "   " -> ""
      [] OTHER -> str

\* String.prototype.toUpperCase on the tickers used below
toUpperCase(str) ==
    CASE str = "pepe" -> "PEPE"
      [] str = "Doge" -> "DOGE"
      [] OTHER -> str

\* s.charAt(0).toUpperCase() + s.slice(1) on the strings used below
capitalize(str) ==
    CASE str = "protocol" -> "Protocol"
      [] str = "culture" -> "Culture"
      [] str = "hybrid" -> "Hybrid"
      [] str = "launch" -> "Launch"
      [] str = "hype" -> "Hype"
      [] str = "stealth" -> "Stealth"
      [] str = "engage" -> "Engage"
      [] str = "moon" -> "Moon"
      [] OTHER -> str

\* intent = body.intent.toLowerCase().trim(); "" stands for an absent field
\* (undefined and "" are both falsy wherever the field is read)
normalise(field) == IF field = "" THEN "" ELSE trimmed(toLowerCase(field))

\* body.intent and body.theme as clients send them
RawIntents == {"", "launch", "HYPE", "Stealth", "moon", "   "}

RawThemes == {"", "minimalist", " Space ", "Neon"}

\* input.intent / input.theme of a validated GenerateJobInput
JobIntents == {normalise(f) : f \in RawIntents}

JobThemes == {normalise(f) : f \in RawThemes}

UtilityClasses == {"protocol", "culture", "hybrid"}

\* brief.tokenAgeSec: null, or a number of seconds
NoAge == [known |-> FALSE, sec |-> 0]

TWENTY_FOUR_HOURS_SEC == 86400

TokenAges ==
    {NoAge} \cup {[known |-> TRUE, sec |-> n] :
                    n \in {0, TWENTY_FOUR_HOURS_SEC - 1, TWENTY_FOUR_HOURS_SEC,
                           TWENTY_FOUR_HOURS_SEC + 1}}

\* ------------------------------------------------------------------------
\* toneProfile (src/modules/toneProfile.ts)
\* ------------------------------------------------------------------------
\* Variant of resolveIntent: tokenAgeSec <= TWENTY_FOUR_HOURS_SEC
resolveIntent_AtMost(userIntent, tokenAgeSec) ==
    IF userIntent /= "" THEN toLowerCase(userIntent)
    ELSE IF tokenAgeSec.known /\ tokenAgeSec.sec <= TWENTY_FOUR_HOURS_SEC
    THEN "launch"
    ELSE "hype"

\* toneProfile.ts:41-47
resolveIntent(userIntent, tokenAgeSec) ==
    IF userIntent /= "" THEN toLowerCase(userIntent)
    ELSE IF tokenAgeSec.known /\ tokenAgeSec.sec < TWENTY_FOUR_HOURS_SEC
    THEN "launch"
    ELSE "hype"

\* Variant of resolveTheme: the utility class decides, the user theme only
\* fills in for a hybrid
resolveTheme_ClassFirst(userTheme, utilityClass) ==
    IF utilityClass = "protocol" THEN "minimalist"
    ELSE IF utilityClass = "culture" THEN "retro-arcade"
    ELSE IF userTheme /= "" THEN toLowerCase(userTheme)
    ELSE "cyberpunk"

\* Variant of resolveTheme: a hybrid token defaults to "space"
resolveTheme_HybridSpace(userTheme, utilityClass) ==
    IF userTheme /= "" THEN toLowerCase(userTheme)
    ELSE IF utilityClass = "protocol" THEN "minimalist"
    ELSE IF utilityClass = "culture" THEN "retro-arcade"
    ELSE "space"

\* toneProfile.ts:55-66
resolveTheme(userTheme, utilityClass) ==
    IF userTheme /= "" THEN toLowerCase(userTheme)
    ELSE IF utilityClass = "protocol" THEN "minimalist"
    ELSE IF utilityClass = "culture" THEN "retro-arcade"
    ELSE "cyberpunk"

\* toneProfile.ts:12-35, keyed by <<utilityClass, intent, theme>>
PROFILE_NAMES ==
    ( <<"protocol", "launch", "minimalist">> :> "The Institutional Reveal"
   @@ <<"protocol", "launch", "cyberpunk">> :> "The Genesis Protocol"
   @@ <<"protocol", "hype", "cyberpunk">> :> "The Builder's Signal"
   @@ <<"protocol", "hype", "minimalist">> :> "The Quiet Powerhouse"
   @@ <<"protocol", "stealth", "cyberpunk">> :> "The Shadow Architect"
   @@ <<"protocol", "stealth", "minimalist">> :> "The Silent Deploy"
   @@ <<"protocol", "engage", "space">> :> "The Frontier Builder"
   @@ <<"protocol", "engage", "minimalist">> :> "The Open Standard"
   @@ <<"culture", "launch", "retro-arcade">> :> "The Pixel Drop"
   @@ <<"culture", "launch", "space">> :> "The Cosmic Debut"
   @@ <<"culture", "hype", "retro-arcade">> :> "The Hype Machine"
   @@ <<"culture", "hype", "space">> :> "The Galactic Wave"
   @@ <<"culture", "stealth", "retro-arcade">> :> "The Underground Legend"
   @@ <<"culture", "stealth", "space">> :> "The Dark Horse"
   @@ <<"culture", "engage", "space">> :> "The Community Arc"
   @@ <<"culture", "engage", "retro-arcade">> :> "The Player One Alliance"
   @@ <<"hybrid", "launch", "cyberpunk">> :> "The Dual Signal"
   @@ <<"hybrid", "launch", "minimalist">> :> "The Crossover Event"
   @@ <<"hybrid", "hype", "cyberpunk">> :> "The Momentum Stack"
   @@ <<"hybrid", "hype", "space">> :> "The Orbital Push"
   @@ <<"hybrid", "stealth", "retro-arcade">> :> "The Hidden Gem"
   @@ <<"hybrid", "engage", "space">> :> "The Coalition Build" )

\* Variant of resolveProfileName: the name is always synthesized
resolveProfileName_NoTable(utilityClass, intent, theme) ==
    "The " \o capitalize(utilityClass) \o " " \o capitalize(intent)

\* toneProfile.ts:71-79
resolveProfileName(utilityClass, intent, theme) ==
    LET key == <<utilityClass, intent, theme>>
    IN  IF key \in DOMAIN PROFILE_NAMES THEN PROFILE_NAMES[key]
        ELSE "The " \o capitalize(utilityClass) \o " " \o capitalize(intent)

\* toneProfile.ts:84-106
resolveToneProfile(utilityClass, userIntent, userTheme, tokenAgeSec) ==
    LET intent == resolveIntent(userIntent, tokenAgeSec)
        theme == resolveTheme(userTheme, utilityClass)
    IN  [utilityClass |-> utilityClass, intent |-> intent, theme |-> theme,
         profileName |-> resolveProfileName(utilityClass, intent, theme)]

\* ------------------------------------------------------------------------
\* utilityClassifier: keyword counting (dist/modules/utilityClassifier.js)
\* ------------------------------------------------------------------------
PROTOCOL_SIGNALS ==
    {"ai", "neural", "infrastructure", "protocol", "agent", "chain", "defi",
     "oracle", "layer", "rollup", "zk", "bridge", "swap", "dao", "governance",
     "staking", "validator", "node", "sdk", "api", "smart contract"}

CULTURE_SIGNALS ==
    {"meme", "community", "moon", "dog", "vibes", "pepe", "degen", "ape", "frog",
     "cat", "nft", "pfp", "wagmi", "gm", "fren", "shib", "wojak", "chad"}

\* a text is given by the signal words it contains (text.includes(s))
Texts == SUBSET {"protocol", "dao", "meme", "moon", "hello"}

\* for (const s of signals) { if (text.includes(s)) hits++; }
countHits(text, signals) == Cardinality(text \cap signals)

\* ------------------------------------------------------------------------
\* Tagline extraction (dist/core/orchestrator.js:154-160). A string is a
\* sequence of runs: n copies of the character ch.
\* ------------------------------------------------------------------------
Run(ch, n) == [ch |-> ch, n |-> n]

\* the characters of the class [.!?]
Terminators == {".", "!", "?"}

\* characters String.prototype.trim removes
Whitespace == {" ", "\n"}

\* String.prototype.length
RECURSIVE length(_)
length(runs) == IF runs = <<>> THEN 0 ELSE Head(runs).n + length(Tail(runs))

\* firstPost.split(/[.!?]/)[0]
RECURSIVE firstSegment(_)
firstSegment(runs) ==
    IF runs = <<>> \/ Head(runs).ch \in Terminators THEN <<>>
    ELSE <<Head(runs)>> \o firstSegment(Tail(runs))

RECURSIVE trimStart(_)
trimStart(runs) ==
    IF runs /= <<>> /\ Head(runs).ch \in Whitespace THEN trimStart(Tail(runs))
    ELSE runs

RECURSIVE trimEnd(_)
trimEnd(runs) ==
    IF runs /= <<>> /\ runs[Len(runs)].ch \in Whitespace
    THEN trimEnd(SubSeq(runs, 1, Len(runs) - 1))
    ELSE runs

\* String.prototype.trim
trim(runs) == trimEnd(trimStart(runs))

\* `$${ticker.toUpperCase()} -- The Next Chapter` (the dash is U+2014)
taglineTemplate(ticker) == <<"$", toUpperCase(ticker), " -- The Next Chapter">>

\* Variant of extractTagline: sentence.length >= 10
extractTagline_Inclusive(firstPost, ticker) ==
    LET sentence == trim(firstSegment(firstPost))
    IN  IF sentence /= <<>> /\ length(sentence) >= 10 /\ length(sentence) <= 80
        THEN [sentence |-> sentence, template |-> <<>>]
        ELSE [sentence |-> <<>>, template |-> taglineTemplate(ticker)]

\* orchestrator.js:154-160
extractTagline(firstPost, ticker) ==
    LET sentence == trim(firstSegment(firstPost))
    IN  IF sentence /= <<>> /\ length(sentence) > 10 /\ length(sentence) <= 80
        THEN [sentence |-> sentence, template |-> <<>>]
        ELSE [sentence |-> <<>>, template |-> taglineTemplate(ticker)]

\* ------------------------------------------------------------------------
\* Call-to-action extraction (dist/core/orchestrator.js:161-168)
\* ------------------------------------------------------------------------
\* the characters of the class [.!?\n]
LineBreaks == Terminators \cup {"\n"}

\* firstPost.split(/[.!?\n]/): every separator character ends a fragment
RECURSIVE split(_, _)
split(runs, current) ==
    IF runs = <<>> THEN <<current>>
    ELSE IF Head(runs).ch \in LineBreaks
    THEN IF Head(runs).n = 1
         THEN <<current>> \o split(Tail(runs), <<>>)
         ELSE <<current>> \o split(<<Run(Head(runs).ch, Head(runs).n - 1)>>
                                       \o Tail(runs), <<>>)
    ELSE split(Tail(runs), Append(current, Head(runs)))

\* .map((l) => l.trim()).filter(Boolean)
lines(firstPost) ==
    SelectSeq([i \in 1..Len(split(firstPost, <<>>)) |-> trim(split(firstPost, <<>>)[i])],
              LAMBDA l : l /= <<>>)

\* `$${ticker.toUpperCase()}`
ctaTemplate(ticker) == <<"$", toUpperCase(ticker)>>

\* Variant of extractCta: only the first fragment is considered
extractCta_FirstOnly(firstPost, ticker) ==
    LET ls == lines(firstPost)
    IN  IF ls /= <<>> /\ length(ls[1]) > 5 /\ length(ls[1]) <= 50
        THEN [fragment |-> ls[1], template |-> <<>>]
        ELSE [fragment |-> <<>>, template |-> ctaTemplate(ticker)]

\* orchestrator.js:161-168
extractCta(firstPost, ticker) ==
    LET ls == lines(firstPost)
        fits == {i \in 1..Len(ls) : length(ls[i]) > 5 /\ length(ls[i]) <= 50}
    IN  IF fits /= {}
        THEN [fragment |-> ls[CHOOSE i \in fits : \A k \in fits : i <= k],
              template |-> <<>>]
        ELSE [fragment |-> <<>>, template |-> ctaTemplate(ticker)]

\* posts.posts[0]: what can stand before, in and after its first sentence
FirstPosts ==
    LET Leads == {<<>>, <<Run(" ", 2)>>}
        Sentences ==
            {<<>>, <<Run("a", 7), Run(" ", 1), Run("a", 7)>>}
                \cup {<<Run("a", n)>> : n \in {5, 10, 11, 15, 80, 81}}
        Remainders ==
            {<<>>,
             <<Run(".", 1), Run(" ", 1), Run("b", 30)>>,
             <<Run(" ", 1), Run("!", 1)>>,
             <<Run("\n", 1), Run("c", 60), Run("?", 1)>>}
    IN  {l \o st \o r : l \in Leads, st \in Sentences, r \in Remainders}

\* const ticker = input.ticker || "TOKEN"
Tickers == {"TOKEN", "pepe"}

\* ------------------------------------------------------------------------
\* The pure functions applied to inputs of the sets above; calls holds the
\* latest application
\* ------------------------------------------------------------------------
Push(c) == calls' = <<c>>

fnFrame == <<pipelineVars, poll, jobsVars>>

CallExtractTagline ==
    /\ \E firstPost \in FirstPosts, ticker \in Tickers :
          Push([fn |-> "extractTagline",
                args |-> [firstPost |-> firstPost, ticker |-> ticker],
                result |-> extractTagline(firstPost, ticker)])
    /\ UNCHANGED fnFrame

CallExtractCta ==
    /\ \E firstPost \in FirstPosts, ticker \in Tickers :
          Push([fn |-> "extractCta",
                args |-> [firstPost |-> firstPost, ticker |-> ticker],
                result |-> extractCta(firstPost, ticker)])
    /\ UNCHANGED fnFrame

CallResolveIntent ==
    /\ \E userIntent \in JobIntents, tokenAgeSec \in TokenAges :
          Push([fn |-> "resolveIntent",
                args |-> [userIntent |-> userIntent, tokenAgeSec |-> tokenAgeSec],
                result |-> resolveIntent(userIntent, tokenAgeSec)])
    /\ UNCHANGED fnFrame

CallResolveTheme ==
    /\ \E userTheme \in JobThemes, utilityClass \in UtilityClasses :
          Push([fn |-> "resolveTheme",
                args |-> [userTheme |-> userTheme, utilityClass |-> utilityClass],
                result |-> resolveTheme(userTheme, utilityClass)])
    /\ UNCHANGED fnFrame

CallResolveToneProfile ==
    /\ \E utilityClass \in UtilityClasses, userIntent \in JobIntents,
          userTheme \in JobThemes, tokenAgeSec \in TokenAges :
          Push([fn |-> "resolveToneProfile",
                args |-> [utilityClass |-> utilityClass, userIntent |-> userIntent,
                          userTheme |-> userTheme, tokenAgeSec |-> tokenAgeSec],
                result |-> resolveToneProfile(utilityClass, userIntent, userTheme,
                                              tokenAgeSec)])
    /\ UNCHANGED fnFrame

CallClassifyUtility ==
    /\ \E text \in Texts :
          LET protocolHits == countHits(text, PROTOCOL_SIGNALS)
              cultureHits == countHits(text, CULTURE_SIGNALS)
          IN  Push([fn |-> "classifyUtility",
                    args |-> [text |-> text, protocolHits |-> protocolHits,
                              cultureHits |-> cultureHits],
                    result |-> classifyUtility(protocolHits, cultureHits)])
    /\ UNCHANGED fnFrame

InitFn ==
    /\ body = [ticker |-> TRUE, contractAddress |-> FALSE]
    /\ nClips = AllClipsCount
    /\ pc = "functions"
    /\ retry = IdleRetry
    /\ Idle
    /\ Apart

NextFn ==
    \/ CallExtractTagline
    \/ CallExtractCta
    \/ CallResolveIntent
    \/ CallResolveTheme
    \/ CallResolveToneProfile
    \/ CallClassifyUtility

SpecFn == InitFn /\ [][NextFn]_vars

\* ========================================================================
\* Properties
\* ========================================================================
Last(q) == q[Len(q)]

Prefix(q, t) == Len(q) <= Len(t) /\ \A i \in 1..Len(q) : q[i] = t[i]

\* the request passed validation, so runPipeline was called
Validated == validateInput(body) = "valid"

\* runPipeline is over: it returned or raised
PipelineOver == pc \in {"returned", "raised"} \/ (pc = "replied" /\ reply /= 400)

\* C1 (as stated): runPipeline never raises, whatever the remote calls do, so
\* a validated request is never answered with an error response.
C1_RunPipelineTotal == pc /= "raised" /\ reply /= 500

\* C2 (as stated): when every remote call of a validated job has failed, the
\* pipeline ends with a JobOutput of confidence_level 1 and data_source
\* "thematic_only".
C2_AllFailedThematicOnly ==
    (Validated /\ PipelineOver /\ ~remoteOk)
        => (output.confidence_level = 1 /\ output.data_source = "thematic_only")

\* C3 (as stated): a failure of the banner branch or of the video branch never
\* aborts the job: no exception of either branch escapes runPipeline.
C3_BranchFailureNotFatal == raisedBy \notin {"generateBanner", "generateVideo"}

\* C4: banner and video are started together, neither waiting for the other;
\* the report exists only once both branches have completed, and its
\* confidence_level and data_source are a function of the stage results alone,
\* so they do not depend on which branch completed first.
C4_FanIn ==
    /\ (bannerPc = "idle") <=> (videoPc = "idle")
    /\ output /= NoOutput =>
          /\ bannerPc = "fulfilled" /\ videoPc = "fulfilled"
          /\ output.confidence_level =
                computeConfidence(
                    [websiteFound |-> website.found,
                     officialLogo |-> officialLogoOf(token),
                     allClipsSucceeded |-> (videoResult.clipsSucceeded = AllClipsCount),
                     noFallbacksUsed |-> ~(\/ token.resolutionSource = "fallback"
                                           \/ videoResult.clipsSucceeded < AllClipsCount)])
          /\ output.data_source =
                determineDataSource(website.found, token.resolutionSource)

\* C4 witness: a report was produced in a run where the video branch, which
\* used a fallback, completed after the banner branch.
C4_Witness ==
    /\ output /= NoOutput
    /\ Last(stageLog) = Ev("end", "generateVideo")
    /\ videoResult.clipsSucceeded < AllClipsCount
    /\ token.resolutionSource /= "fallback"

StageOrder ==
    <<"resolveToken", "scrapeWebsite", "manageLogo", "classifyUtility",
      "buildCreativeBrief", "resolveToneProfile", "generatePosts">>

SequentialStages == {StageOrder[i] : i \in 1..Len(StageOrder)}

IsSequentialEnd(e) == e[1] = "end" /\ e[2] \in SequentialStages

\* the stage that must have completed before the given stage starts
Predecessor(stage) ==
    IF stage \in {"generateBanner", "generateVideo"} THEN "generatePosts"
    ELSE StageOrder[(CHOOSE i \in 2..Len(StageOrder) : StageOrder[i] = stage) - 1]

C6_RetryAttempts ==
    /\ [](/\ retry.calls <= retry.maxRetries + 1
          /\ (retry.maxRetries = DefaultMaxRetries => retry.calls <= 3)
          /\ (retry.st = "returned" =>
                 /\ retry.result /= NoResult
                 /\ retry.lastError = retry.calls - 1)
          /\ (retry.st = "thrown" =>
                 /\ retry.calls = retry.maxRetries + 1
                 /\ retry.lastError = retry.calls))
    /\ [][Settled(retry) => retry'.calls = retry.calls]_vars

\* C6 witness: with the default options the operation failed twice and
\* succeeded at the third, last permitted, invocation.
C6_Witness ==
    /\ retry.st = "returned"
    /\ retry.maxRetries = DefaultMaxRetries
    /\ retry.calls = DefaultMaxRetries + 1

RECURSIVE Pow2(_)
Pow2(k) == IF k = 0 THEN 1 ELSE 2 * Pow2(k - 1)

\* C7: the wait after failed attempt k (counted from 0, k < maxRetries) is
\* exactly baseDelay * 2^k, 1000 ms then 2000 ms with the defaults; one wait
\* precedes every attempt but the first and none follows the final failure.
C7_BackoffDelays ==
    /\ \A k \in 0..(Len(retry.delays) - 1) :
          /\ k < retry.maxRetries
          /\ retry.delays[k + 1] = retry.baseDelayMs * Pow2(k)
    /\ (retry.baseDelayMs = DefaultBaseDelayMs /\ retry.maxRetries = DefaultMaxRetries)
          => Prefix(retry.delays, <<1000, 2000>>)
    /\ (retry.st = "waiting" => Len(retry.delays) = retry.calls - 1)
    /\ (retry.st \in {"calling", "returned"} => Len(retry.delays) = retry.attempt)
    /\ (retry.st = "thrown" => Len(retry.delays) = retry.maxRetries)

\* C7 witness: three failed attempts were separated by three waits, and the
\* fourth, final, attempt has failed.
C7_Witness ==
    /\ retry.st = "thrown"
    /\ retry.maxRetries = 3
    /\ Len(retry.delays) = 3

StrategyRank(st) ==
    CASE st = "search"  -> 1
      [] st = "address" -> 2
      [] st = "user"    -> 3
      [] st = "default" -> 4

\* C8: the resolution strategies are tried in the order ticker search, address
\* lookup, user-provided address, default; each lookup runs inside withRetry
\* and the next strategy is tried only once it has settled without a
\* resolution; the first resolution found is returned and nothing is tried
\* after it; the default is returned exactly when nothing else applied.
C8_StrategyChain ==
    /\ [](/\ \A i, j \in 1..Len(strategyLog) :
                i < j => StrategyRank(strategyLog[i]) < StrategyRank(strategyLog[j])
          /\ (pc = "rt1_wait" => retry.label = "dexscreener-search"
                                   /\ Last(strategyLog) = "search")
          /\ (pc = "rt2_wait" => retry.label = "dexscreener-address"
                                   /\ Last(strategyLog) = "address")
          /\ (token /= NoToken =>
                 /\ (token.resolutionSource = "dexscreener"
                        <=> Last(strategyLog) \in {"search", "address"})
                 /\ (token.resolutionSource = "user" <=> Last(strategyLog) = "user")
                 /\ (token.resolutionSource = "fallback"
                        <=> Last(strategyLog) = "default")
                 /\ (token.resolutionSource = "fallback" => ~body.contractAddress)))
    /\ [][/\ (pc \in {"rt1_wait", "rt2_wait"} /\ pc' /= pc) =>
                /\ retry.st \in {"returned", "thrown"}
                /\ (retry.st = "returned" /\ retry.result.kind = "pair") =>
                       (token' = extractFromPair(retry.result)
                          /\ strategyLog' = strategyLog)
                /\ ~(retry.st = "returned" /\ retry.result.kind = "pair") =>
                       strategyLog' /= strategyLog \/ pc' = "rt2"
          /\ token /= NoToken => strategyLog' = strategyLog]_vars

\* C8 witness: with ticker and address given, both lookups failed and the
\* user-provided address was returned.
C8_Witness ==
    /\ strategyLog = <<"search", "address", "user">>
    /\ token.resolutionSource = "user"

\* C9: resolveToken never raises: whatever its lookups do, no exception of
\* resolveToken escapes, and once it has returned the token's resolutionSource
\* is one of the allowed tags.
C9_ResolveTokenTotal ==
    /\ raisedBy /= "resolveToken"
    /\ (pc \in {"rt1", "rt1_wait", "rt2", "rt2_wait"} => token = NoToken)
    /\ (\E i \in 1..Len(stageLog) : stageLog[i] = Ev("end", "resolveToken"))
          => token.resolutionSource \in ResolutionSources

\* C9 witness: resolveToken has returned although every remote call so far
\* has failed.
C9_Witness ==
    /\ pc = "scrape"
    /\ ~remoteOk
    /\ Len(strategyLog) >= 2
    /\ token.resolutionSource \in ResolutionSources

\* C10: fallbacksUsed is false when the job starts and, once true, stays true
\* for the rest of the job.
C10_FallbacksMonotone ==
    /\ ~fallbacksUsed
    /\ [][fallbacksUsed => fallbacksUsed']_vars

\* C10 witness: the flag was set by the token fallback and is still set after
\* the video branch reported that enough clips succeeded.
C10_Witness ==
    /\ fallbacksUsed
    /\ token.resolutionSource = "fallback"
    /\ videoPc = "fulfilled"
    /\ videoResult.clipsSucceeded >= AllClipsCount

\* the confidence factors have been computed and the report built
Reported == output /= NoOutput

\* C11: when the confidence factors are computed, fallbacksUsed is true
\* exactly when token resolution returned the fallback tag or the video branch
\* reported fewer than 2 succeeded clips; the flag is set in the very step in
\* which the triggering result is received, so the equivalence holds in every
\* state of the job.
C11_FallbacksUsedIff ==
    /\ fallbacksUsed <=>
          \/ token.resolutionSource = "fallback"
          \/ (videoPc = "fulfilled" /\ videoResult.clipsSucceeded < AllClipsCount)
    /\ Reported =>
          (Factors.noFallbacksUsed <=>
              ~(\/ token.resolutionSource = "fallback"
                \/ videoResult.clipsSucceeded < AllClipsCount))

\* C11 witness: a report whose flag was set by the token fallback alone, every
\* attempted clip having succeeded.
C11_Witness ==
    /\ pc = "returned"
    /\ fallbacksUsed
    /\ token.resolutionSource = "fallback"
    /\ videoResult.clipsSucceeded = nClips

\* some stage of the job took its degraded path (the choice of palette, which
\* leaves no trace in the job, aside)
DegradedPathUsed ==
    \/ token.resolutionSource \in {"user", "fallback"}
    \/ logo.source = "placeholder"
    \/ posts.kind = "template"
    \/ bannerResult.background = "gradient"
    \/ ~bannerResult.composited
    \/ videoResult.clipsSucceeded < nClips
    \/ videoResult.source \in {"firstClip", "fallback"}

\* C12 (as stated): the noFallbacksUsed factor of a report is true only if no
\* stage of the job took its degraded path.
C12_NoFallbacksMeansNoDegradedPath ==
    (Reported /\ Factors.noFallbacksUsed) => ~DegradedPathUsed

\* C13 (as stated): the allClipsSucceeded factor of a report is true exactly
\* when clipsSucceeded equals the number of clips the generator attempted,
\* be it 2 or 3.
C13_AllClipsIffAllAttempted ==
    Reported => (Factors.allClipsSucceeded <=> videoResult.clipsSucceeded = nClips)

FactorNames == {"websiteFound", "officialLogo", "allClipsSucceeded", "noFallbacksUsed"}

FactorCombos == [FactorNames -> BOOLEAN]

CountTrue(f) == Cardinality({k \in FactorNames : f[k]})

Clamp(x, lo, hi) == IF x < lo THEN lo ELSE IF x > hi THEN hi ELSE x

\* C14: for each of the 16 combinations of the four factors computeConfidence
\* returns clamp(number of true factors, 1, 4), never 0 and never above 4;
\* turning one factor from false to true never lowers it (a property of the
\* function, evaluated when the request arrives); and the confidence_level of
\* a report is that value for the job's factors.
C14_ConfidenceClamp ==
    /\ pc = "route" =>
          /\ Cardinality(FactorCombos) = 16
          /\ \A f \in FactorCombos :
                /\ computeConfidence(f) = Clamp(CountTrue(f), 1, 4)
                /\ computeConfidence(f) \in 1..4
                /\ \A k \in FactorNames :
                      ~f[k] => computeConfidence([f EXCEPT ![k] = TRUE])
                                  >= computeConfidence(f)
    /\ Reported => output.confidence_level = Clamp(CountTrue(Factors), 1, 4)

\* C14 witness: a report of a job none of whose factors is true, scored 1.
C14_Witness ==
    /\ Reported
    /\ CountTrue(Factors) = 0
    /\ output.confidence_level = 1

PrimarySources == {"coingecko", "dexscreener"}

\* C15: data_source is "website" exactly when website content was found and
\* the resolution source is a primary one, "thematic_only" exactly when no
\* website was found and the resolution source is fallback, and "mixed" in
\* every other combination (a property of the function, evaluated when the
\* request arrives); the data_source of a report is that value for the job's
\* website and token.
C15_DataSourceTable ==
    /\ pc = "route" =>
          \A found \in BOOLEAN, src \in ResolutionSources :
             LET d == determineDataSource(found, src)
                 isWebsite == found /\ src \in PrimarySources
                 isThematic == ~found /\ src = "fallback"
             IN  /\ (d = "website" <=> isWebsite)
                 /\ (d = "thematic_only" <=> isThematic)
                 /\ (d = "mixed" <=> (~isWebsite /\ ~isThematic))
    /\ Reported =>
          /\ (output.data_source = "website"
                <=> (website.found /\ token.resolutionSource \in PrimarySources))
          /\ (output.data_source = "thematic_only"
                <=> (~website.found /\ token.resolutionSource = "fallback"))
          /\ output.data_source \in {"website", "thematic_only", "mixed"}

\* C15 witness: a report tagged "mixed" for a user-provided address.
C15_Witness ==
    /\ Reported
    /\ token.resolutionSource = "user"
    /\ output.data_source = "mixed"

\* C16: a report of a job where the website was found, the token came from a
\* primary source with a logo URL, and both clips of the video succeeded has
\* confidence_level 4 and data_source "website".
C16_BestCase ==
    (/\ Reported
     /\ website.found
     /\ token.resolutionSource \in PrimarySources
     /\ token.logoUrl
     /\ nClips = AllClipsCount
     /\ videoResult.clipsSucceeded = AllClipsCount)
        => (output.confidence_level = 4 /\ output.data_source = "website")

\* C16 witness: such a report, produced although the logo download failed and
\* the placeholder logo was used.
C16_Witness ==
    /\ Reported
    /\ website.found
    /\ token.logoUrl
    /\ nClips = AllClipsCount
    /\ videoResult.clipsSucceeded = AllClipsCount
    /\ output.confidence_level = 4

\* C17 (as stated): a report of a job with a ticker, no contract address, the
\* token resolved to fallback and no website found has data_source
\* "thematic_only", confidence_level 1, and three non-empty posts of at most
\* 280 characters each.
C17_ThematicOnlyCase ==
    (/\ Reported
     /\ body.ticker /\ ~body.contractAddress
     /\ token.resolutionSource = "fallback"
     /\ ~website.found)
        => /\ output.data_source = "thematic_only"
           /\ output.confidence_level = 1
           /\ Len(output.posts) = 3
           /\ \A i \in 1..Len(output.posts) :
                 output.posts[i] > 0 /\ output.posts[i] <= MaxPostLen

\* C18 (as stated): generatePosts never raises; whatever the model call does
\* it returns exactly 3 posts of at most 280 characters each.
C18_GeneratePostsTotal ==
    /\ raisedBy /= "generatePosts"
    /\ posts /= NoPosts =>
          /\ Len(posts.posts) = 3
          /\ \A i \in 1..Len(posts.posts) : posts.posts[i] <= MaxPostLen

\* C19 (as stated): generateBanner never raises: whatever fails in background
\* generation, compositing, the final download and the upload, its promise is
\* never rejected.
C19_GenerateBannerTotal == bannerPc /= "rejected"

\* C20 (as stated): manageLogo never raises: whatever fails in the download,
\* the image conversion and the upload, it returns a LogoResult.
C20_ManageLogoTotal == raisedBy /= "manageLogo"

\* C21: generateVideo never fails: it always returns a launchVideoUrl, and its
\* clipsSucceeded lies between 0 and the number of clips attempted and equals
\* the number of clip generations that succeeded.
C21_GenerateVideoTotal ==
    /\ [](/\ videoPc /= "rejected"
          /\ videoPc = "fulfilled" =>
                /\ videoResult.launchVideoUrl /= "none"
                /\ videoResult.clipsSucceeded \in 0..nClips)
    /\ [][videoPc = "clips" /\ videoPc' /= "clips" =>
            videoResult'.clipsSucceeded =
                Cardinality({i \in 1..nClips : clips[i] = "fulfilled"})]_vars
    /\ [][videoPc /= "clips" /\ videoPc /= "idle" =>
            videoResult'.clipsSucceeded = videoResult.clipsSucceeded]_vars

\* the stitch failed for good, the upload failed too, and generateVideo still
\* returned the first clip's URL with clipsSucceeded counting some but not all
C21_Witness ==
    /\ videoPc = "fulfilled"
    /\ videoResult.source = "firstClip"
    /\ videoResult.launchVideoUrl = "sourceUrl"
    /\ videoResult.clipsSucceeded \in 1..(nClips - 1)

\* C22: scrapeWebsite never fails. It reports found = false when no website
\* URL is known, when the page fetch fails on every attempt, or when fewer
\* than 20 characters of usable text are extracted; when it reports
\* found = true the extracted text has between 20 and 1,500 characters.
C22_ScrapeWebsiteTotal ==
    /\ [](/\ raisedBy /= "scrapeWebsite"
          /\ website.found => website.textLen \in MinUsableChars..MaxExtractedChars
          /\ website.scraped /\ ~token.websiteUrl => ~website.found
          /\ pc = "route" =>
                \A n \in 0..(MaxExtractedChars + MinUsableChars) :
                    LET w == scrapeResult(extractContent(n))
                    IN  /\ w.found <=> n >= MinUsableChars
                        /\ w.found => w.textLen = extractContent(n)
                        /\ w.textLen <= MaxExtractedChars)
    /\ [][pc = "scrape" /\ pc' /= "scrape" =>
            IF token.websiteUrl
            THEN pc' = "scrape_wait" /\ retry'.label = "website-scrape"
            ELSE pc' = "logo" /\ website' = NotFound]_vars
    /\ [][pc = "scrape_wait" /\ pc' /= "scrape_wait" =>
            /\ pc' = "logo"
            /\ website'.scraped
            /\ retry.st = "thrown" => ~website'.found]_vars

\* a website URL was known and fetched, yet too little text came out of it
\* or every fetch failed
C22_Witness ==
    /\ token.websiteUrl
    /\ website.scraped
    /\ ~website.found
    /\ pc = "logo"

PollOver == poll.at \in {"returned", "failed", "timedOut", "requestError"}

\* the maximum wait of the loop being run: 120 s for the banner, 180 s for
\* the video
StatedMaxWait == IF poll.loop = "banner" THEN 120000 ELSE 180000

\* C23: every render-polling loop terminates on its own: it returns the URL
\* when the render status is done, raises when the status is failed, and
\* raises a timeout error once its own maximum wait (120 s for the banner,
\* 180 s for the video) has elapsed without the render reaching done or
\* failed; it never polls forever.
C23_PollingTerminates ==
    /\ <>PollOver
    /\ [](poll.at = "returned" <=> poll.status = "done")
    /\ [](poll.at = "failed" <=> poll.status = "failed")
    /\ [](poll.at = "timedOut" =>
             poll.elapsed >= StatedMaxWait /\ poll.status \notin {"done", "failed"})
    /\ [](poll.at = "request" => poll.elapsed < StatedMaxWait)
    /\ [](poll.polls <= StatedMaxWait \div interval(poll.loop))
    /\ [][poll.at = "check" /\ poll.elapsed >= StatedMaxWait =>
            poll'.at = "timedOut"]_vars

\* the video render stayed in progress for 18 polls and the loop gave up
C23_Witness ==
    /\ poll.loop = "video"
    /\ poll.at = "timedOut"
    /\ poll.polls = 18
    /\ poll.status = "rendering"

\* what job j produces when it runs alone: the colours of its own logo
AloneColors(j) == [primary |-> pngBuffer(j), secondary |-> pngBuffer(j)]

\* C24: no mutable state is shared between concurrently running jobs: for
\* every interleaving of two jobs, each job's output (its brand colors among
\* it) equals what the job would produce when run alone with the same
\* collaborator responses.
C24_NoSharedState ==
    \A j \in Jobs :
        extract[j].at \in {"upload", "done"} => extract[j].brandColors = AloneColors(j)

\* the latest application is one of fn
Applied(fn) == calls /= <<>> /\ calls[1].fn = fn

\* a string of runs, character by character
RECURSIVE Expand(_)
Expand(runs) ==
    IF runs = <<>> THEN <<>>
    ELSE [i \in 1..Head(runs).n |-> Head(runs).ch] \o Expand(Tail(runs))

Least(S) == CHOOSE x \in S : \A y \in S : x <= y

Greatest(S) == CHOOSE x \in S : \A y \in S : x >= y

\* the text before the first '.', '!' or '?', without the white space around it
FirstSentence(text) ==
    LET stops == {i \in 1..Len(text) : text[i] \in {".", "!", "?"}}
        end == IF stops = {} THEN Len(text) ELSE Least(stops) - 1
        ink == {i \in 1..end : text[i] \notin {" ", "\n"}}
    IN  IF ink = {} THEN <<>> ELSE SubSeq(text, Least(ink), Greatest(ink))

\* C25: tagline extraction returns the trimmed first sentence of the first
\* post (split on '.', '!' or '?') when its length L satisfies 10 < L <= 80,
\* and the templated fallback "$TICKER -- The Next Chapter" for every other
\* length (5, 10, 81, empty).
C25_TaglineExtraction ==
    Applied("extractTagline") =>
        LET c == calls[1]
            first == FirstSentence(Expand(c.args.firstPost))
        IN  IF 10 < Len(first) /\ Len(first) <= 80
            THEN /\ Expand(c.result.sentence) = first
                 /\ c.result.template = <<>>
            ELSE /\ c.result.sentence = <<>>
                 /\ c.result.template =
                        <<"$", toUpperCase(c.args.ticker), " -- The Next Chapter">>

\* a first sentence of 15 characters with a space inside and white space
\* before it is the tagline, verbatim
C25_Witness ==
    /\ Applied("extractTagline")
    /\ calls[1].args.firstPost /= <<>>
    /\ Head(calls[1].args.firstPost).ch = " "
    /\ calls[1].result.sentence = <<Run("a", 7), Run(" ", 1), Run("a", 7)>>

\* C26: a user-supplied intent is always the resolved intent regardless of
\* token age; with no user intent, a known token age below 86,400 s resolves
\* to "launch", and an age of 86,400 s or more or an unknown age to "hype".
C26_IntentResolution ==
    Applied("resolveIntent") =>
        LET a == calls[1].args
        IN  calls[1].result =
                IF a.userIntent /= "" THEN a.userIntent
                ELSE IF a.tokenAgeSec.known /\ a.tokenAgeSec.sec < 86400
                THEN "launch"
                ELSE "hype"

\* no user intent and a token exactly 24 hours old: "hype"
C26_Witness ==
    /\ Applied("resolveIntent")
    /\ calls[1].args.userIntent = ""
    /\ calls[1].args.tokenAgeSec = [known |-> TRUE, sec |-> 86400]
    /\ calls[1].result = "hype"

\* C27: a user-supplied theme is always the resolved theme; with no user
\* theme, utility class protocol resolves to "minimalist", culture to
\* "retro-arcade" and hybrid to "cyberpunk".
C27_ThemeResolution ==
    Applied("resolveTheme") =>
        LET a == calls[1].args
        IN  calls[1].result =
                IF a.userTheme /= "" THEN a.userTheme
                ELSE IF a.utilityClass = "protocol" THEN "minimalist"
                ELSE IF a.utilityClass = "culture" THEN "retro-arcade"
                ELSE "cyberpunk"

\* a user theme given for a culture token wins over "retro-arcade"
C27_Witness ==
    /\ Applied("resolveTheme")
    /\ calls[1].args.utilityClass = "culture"
    /\ calls[1].args.userTheme = "space"
    /\ calls[1].result = "space"

\* the profile name the table or the synthesis rule gives
NameFor(utilityClass, intent, theme) ==
    IF <<utilityClass, intent, theme>> \in DOMAIN PROFILE_NAMES
    THEN PROFILE_NAMES[<<utilityClass, intent, theme>>]
    ELSE "The " \o capitalize(utilityClass) \o " " \o capitalize(intent)

C29_ClassifyUtility ==
    Applied("classifyUtility") =>
        LET a == calls[1].args
        IN  /\ a.protocolHits = Cardinality({w \in a.text : w \in PROTOCOL_SIGNALS})
            /\ a.cultureHits = Cardinality({w \in a.text : w \in CULTURE_SIGNALS})
            /\ calls[1].result =
                   IF a.protocolHits > 0 /\ a.cultureHits = 0 THEN "protocol"
                   ELSE IF a.cultureHits > 0 /\ a.protocolHits = 0 THEN "culture"
                   ELSE "hybrid"

\* two protocol keywords against one culture keyword: still "hybrid"
C29_Witness ==
    /\ Applied("classifyUtility")
    /\ calls[1].args.protocolHits = 2
    /\ calls[1].args.cultureHits = 1
    /\ calls[1].result = "hybrid"

\* C30: validateInput raises for every body that has neither a ticker nor a
\* contract address, so every input that reaches runPipeline has at least one
\* of them; the route answers a validation error with status 400 and does
\* not start the pipeline.
C30_ValidationGate ==
    /\ pc = "route" =>
          \A b \in [ticker : BOOLEAN, contractAddress : BOOLEAN] :
              ~b.ticker /\ ~b.contractAddress => validateInput(b) = "invalid"
    /\ stageLog /= <<>> => body.ticker \/ body.contractAddress
    /\ ~body.ticker /\ ~body.contractAddress /\ pc /= "route" =>
          pc = "replied" /\ reply = 400
    /\ reply = 400 =>
          /\ stageLog = <<>>
          /\ strategyLog = <<>>
          /\ token = NoToken
          /\ output = NoOutput
          /\ ~remoteOk

\* a body with neither field has been answered
C30_Witness ==
    /\ ~body.ticker
    /\ ~body.contractAddress
    /\ pc = "replied"
    /\ reply = 400

\* a step of withRetry in which fn() is invoked: on the main thread one
\* invocation at a time, in the branches a whole activation
ExecutorStep ==
    \/ Invoke
    \/ InvokeThrows
    \/ \E i \in 1..3 : ClipSettles(i)
    \/ BannerBackground
    \/ BannerComposite
    \/ VideoStitch

\* C31: every remote call made by a stage is issued through the Retry
\* Executor: a step in which a remote call succeeds for the first time is a
\* step of withRetry.
C31_RemoteCallsThroughRetry == [][remoteOk' /= remoteOk => ExecutorStep]_vars

\* C32: video generation starts all clip generations in parallel and collects
\* every outcome regardless of individual failures (one clip's failure
\* cancels no other clip); if no clip succeeds it returns the fallback video
\* with clipsSucceeded = 0 and never attempts stitching; if at least one clip
\* succeeds and stitching fails on every attempt it returns the first
\* successful clip.
C32_ClipFanOut ==
    /\ [][videoPc /= "clips" /\ videoPc' = "clips" =>
            \A i \in 1..nClips : clips'[i] = "pending"]_vars
    /\ [][videoPc = "clips" /\ videoPc' = "clips" =>
            \A i \in 1..nClips :
                clips[i] \in {"fulfilled", "rejected"} => clips'[i] = clips[i]]_vars
    /\ [][videoPc = "clips" /\ videoPc' /= "clips" =>
            /\ \A i \in 1..nClips : clips[i] \in {"fulfilled", "rejected"}
            /\ videoPc' = IF \A i \in 1..nClips : clips[i] = "rejected"
                          THEN "fallback_video" ELSE "stitch"]_vars
    /\ [](videoPc = "fallback_video" => videoResult.clipsSucceeded = 0)
    /\ [](videoResult.source = "fallback" => videoResult.clipsSucceeded = 0)
    /\ [](videoPc = "stitch" \/ videoResult.source \in {"stitched", "firstClip"}
            => videoResult.clipsSucceeded >= 1)
    /\ [][videoPc = "stitch" /\ videoPc' /= "stitch" =>
            /\ videoPc' = "video_upload"
            /\ videoResult'.source \in {"stitched", "firstClip"}]_vars
    /\ [][videoPc = "fallback_video" => videoPc' \in {"fallback_video", "fulfilled"}]_vars

\* one clip of three succeeded, the stitch failed for good, and the first
\* clip is about to be uploaded
C32_Witness ==
    /\ nClips = 3
    /\ videoPc = "video_upload"
    /\ videoResult.source = "firstClip"
    /\ videoResult.clipsSucceeded = 1

FragmentAt(text, a) ==
    LET stops == {i \in a..Len(text) : text[i] \in {".", "!", "?", "\n"}}
        end == IF stops = {} THEN Len(text) ELSE Least(stops) - 1
        ink == {i \in a..end : text[i] /= " "}
    IN  IF ink = {} THEN <<>> ELSE SubSeq(text, Least(ink), Greatest(ink))

\* C34: call-to-action extraction splits the first post on '.', '!', '?' and
\* newline, and returns the first non-empty trimmed fragment whose length L
\* satisfies 5 < L <= 50, skipping earlier fragments outside that range; when
\* no fragment qualifies it returns "$TICKER" with the ticker upper-cased.
C34_CtaExtraction ==
    Applied("extractCta") =>
        LET c == calls[1]
            text == Expand(c.args.firstPost)
            starts == {a \in 1..Len(text) :
                          a = 1 \/ text[a - 1] \in {".", "!", "?", "\n"}}
            fits == {a \in starts : 5 < Len(FragmentAt(text, a))
                                      /\ Len(FragmentAt(text, a)) <= 50}
        IN  IF fits /= {}
            THEN /\ Expand(c.result.fragment) = FragmentAt(text, Least(fits))
                 /\ c.result.template = <<>>
            ELSE /\ c.result.fragment = <<>>
                 /\ c.result.template = <<"$", toUpperCase(c.args.ticker)>>

\* the first fragment has 81 characters and is skipped; the second, of 30,
\* is the call to action
C34_Witness ==
    /\ Applied("extractCta")
    /\ length(firstSegment(calls[1].args.firstPost)) = 81
    /\ calls[1].result.fragment = <<Run("b", 30)>>

\* C35: in every job a website is found only if the token was resolved from a
\* primary source; hence data_source is "website" whenever the website was
\* found, and "mixed" is produced only when no website was found and the
\* resolution source is not fallback.
C35_WebsiteOnlyFromPrimary ==
    /\ website.found => token.resolutionSource \in {"coingecko", "dexscreener"}
    /\ Reported =>
          /\ website.found => output.data_source = "website"
          /\ output.data_source = "mixed" =>
                ~website.found /\ token.resolutionSource /= "fallback"

\* a job resolved from the user's contract address alone reports "mixed"
C35_Witness ==
    /\ Reported
    /\ token.resolutionSource = "user"
    /\ website.scraped
    /\ ~website.found
    /\ output.data_source = "mixed"

\* C36: in every JobOutput, confidence_level = 4 implies data_source =
\* "website", and data_source = "thematic_only" implies confidence_level = 1.
C36_ConfidenceVsDataSource ==
    Reported =>
       /\ output.confidence_level = 4 => output.data_source = "website"
       /\ output.data_source = "thematic_only" => output.confidence_level = 1

\* a thematic-only report whose video kept all its clips and whose placeholder
\* logo was uploaded still has confidence 1
C36_Witness ==
    /\ Reported
    /\ output.data_source = "thematic_only"
    /\ videoResult.clipsSucceeded = AllClipsCount
    /\ logo.uploaded
    /\ output.confidence_level = 1

\* C37: if video generation reports fewer than 2 succeeded clips, the job's
\* confidence_level is at most 2: the single video failure makes both the
\* allClipsSucceeded factor and the noFallbacksUsed factor false.
C37_VideoFailureCapsConfidence ==
    (Reported /\ videoResult.clipsSucceeded < 2) =>
       /\ output.confidence_level <= 2
       /\ ~Factors.allClipsSucceeded
       /\ ~Factors.noFallbacksUsed

\* one clip out of the video, website found and official logo: confidence 2
C37_Witness ==
    /\ Reported
    /\ videoResult.clipsSucceeded = 1
    /\ website.found
    /\ officialLogo
    /\ output.confidence_level = 2

\* C38: resolveToken returns the fallback tag only when no contract address
\* was supplied; when a contract address is supplied and no lookup yields a
\* value it returns the user tag, and in that case the orchestrator does not
\* set fallbacksUsed for token resolution (the flag can then only come from
\* the video branch).
C38_FallbackOnlyWithoutAddress ==
    /\ token.resolutionSource = "fallback" => ~body.contractAddress
    /\ token.resolutionSource = "user" => body.contractAddress
    /\ (token /= NoToken /\ body.contractAddress
          /\ token.resolutionSource /= "dexscreener") => token = UserToken
    /\ (token.resolutionSource = "user" /\ fallbacksUsed) =>
          (videoPc = "fulfilled" /\ videoResult.clipsSucceeded < AllClipsCount)

\* ticker search and address lookup both without a value: user tag, flag unset
C38_Witness ==
    /\ Reported
    /\ body.ticker
    /\ body.contractAddress
    /\ token = UserToken
    /\ ~fallbacksUsed
    /\ output.confidence_level = 2

\* C39: when the user supplies neither intent nor theme, for every utility
\* class and every token age (including unknown) the auto-resolved
\* (utilityClass, intent, theme) triple has an entry in the static profile
\* table, so the profile name is never synthesized.
C39_AutoTripleInTable ==
    (Applied("resolveToneProfile") /\ calls[1].args.userIntent = ""
                                   /\ calls[1].args.userTheme = "") =>
        LET r == calls[1].result
            key == <<r.utilityClass, r.intent, r.theme>>
        IN  /\ r.utilityClass = calls[1].args.utilityClass
            /\ key \in DOMAIN PROFILE_NAMES
            /\ r.profileName = PROFILE_NAMES[key]
            /\ r.profileName /=
                  "The " \o capitalize(r.utilityClass) \o " " \o capitalize(r.intent)

\* a hybrid token of unknown age resolves to hype / cyberpunk, a table entry
C39_Witness ==
    /\ Applied("resolveToneProfile")
    /\ calls[1].args.userIntent = ""
    /\ calls[1].args.userTheme = ""
    /\ calls[1].args.utilityClass = "hybrid"
    /\ calls[1].args.tokenAgeSec = NoAge
    /\ calls[1].result.intent = "hype"
    /\ calls[1].result.theme = "cyberpunk"
    /\ <<"hybrid", "hype", "cyberpunk">> \in DOMAIN PROFILE_NAMES

====
